---- MODULE Spec2Model ----
(***************************************************************************)
(* Training orchestrator (main.py: main) and validation / checkpoint       *)
(* controller (running.py: validate) of CNNFCN_PatternSeries.              *)
(*                                                                         *)
(* Numbers.  Metric values are floats in the source; here they are the     *)
(* integers 0..MaxVal.  The learning rate and the factors of the schedule  *)
(* are exact rationals <<numerator, denominator>>.  The sentinels +-1e16   *)
(* of main.py:239 do not fit TLC's 32-bit integers and are scaled to       *)
(* +-BestSentinel, far outside the metric values.                          *)
(*                                                                         *)
(* Metric maps (OrderedDict in the source) are sequences of records        *)
(* [k |-> name, v |-> value] in insertion order; {} is <<>>.               *)
(***************************************************************************)
EXTENDS Integers, Sequences, FiniteSets, TLC

VARIABLES
    config,             \* the configuration mapping handed to main
    start_epoch,        \* main.py:198/203, 0 or the epoch of the loaded checkpoint
    pc,                 \* position of main
    epoch,              \* loop variable of main.py:312
    mark,               \* main.py:313
    lr_step,            \* main.py:199, 0-based index into config.lr_step
    lr,                 \* main.py:200, current learning rate of the orchestrator
    param_groups,       \* optimizer.param_groups[i]['lr']
    params,             \* the model parameters, as the quality they give the model
    opt_steps,          \* optimizer steps taken on the model parameters
    training,           \* model.training, toggled by model.train() / model.eval()
    trainer_metrics,    \* trainer.epoch_metrics
    evaluator_metrics,  \* val_evaluator.epoch_metrics (aliased by aggr_metrics_val)
    best_value,         \* main.py:239
    best_metrics,       \* main.py:242
    val_metrics,        \* main.py:241
    train_metrics,      \* main.py:243
    metrics_names,      \* main.py:303/339
    save_dir,           \* checkpoint files by name
    pred_dir,           \* best_predictions dump, <<>> while absent
    writes,             \* number of writes of the best checkpoint and of the dump
    difficulty,         \* number of update() calls on the train / val data source
    exported,           \* the two metric tables, <<>> until exported
    records,            \* rows appended to the cross-experiment log
    ret,                \* what main returned
    num_classes,        \* model.num_classes
    runner_class,       \* the class pipeline_factory returned, or UnsupervisedRunner
    method,             \* the runner method being executed, "none" outside a call
    at,                 \* position in that method
    epoch_num,          \* its argument
    dataloader,         \* len(self.dataloader), the number of batches it yields
    yielded,            \* the batches the iteration has yielded so far, in order
    mean_loss,          \* mean loss of the current batch, a rational
    epoch_loss,         \* running.py:273, 323, 396, 472
    total_samples,      \* total_samples / total_active_elements of the runner
    grad,               \* the gradient buffers of the model parameters
    stepped,            \* the gradient buffers the optimizer steps of this pass used
    raised,             \* the exception the method raised, "none" if none
    keep_all,           \* the keep_all argument of evaluate
    per_batch,          \* the per_batch dict of the call, <<>> while there is none
    result,             \* the shape of the value the call returned, "none" before
    trainer,            \* the class of the trainer object of main.py:232, "none" before
    val_evaluator,      \* the class of the evaluator object of main.py:234
    samples,            \* the samples self.dataloader yields to the open-set methods
    weibull_args,       \* what make_weibull_from_trainsets hands to weibull_tailfitting
    openmax_scores,     \* what openmax hands to get_scores and gets back
    weibull_model,      \* what weibull_tailfitting returned, <<>> before
    reg,                \* config['l2_reg'] and config['global_reg']
    weight_decay,       \* the weight_decay the optimizer was built with (main.py:196)
    l2_reg,             \* trainer.l2_reg (running.py:241)
    total_loss,         \* the objective backward() is called on (running.py:292-295)
    val_data,           \* the batches of val_dataset, in index order
    passes              \* what each finished evaluation pass consumed and returned

vars == <<config, start_epoch, pc, epoch, mark, lr_step, lr, param_groups, params, opt_steps,
          training, trainer_metrics, evaluator_metrics, best_value, best_metrics,
          val_metrics, train_metrics, metrics_names, save_dir, pred_dir, writes,
          difficulty, exported, records, ret, num_classes, runner_class, method, at,
          epoch_num, dataloader, yielded, mean_loss, epoch_loss, total_samples, grad,
          stepped, raised, keep_all, per_batch, result, trainer, val_evaluator,
          samples, weibull_args, openmax_scores, weibull_model, reg, weight_decay,
          l2_reg, total_loss, val_data, passes>>

\* the regularisation options, where they were routed and the objective they give
routing == <<reg, weight_decay, l2_reg, total_loss>>

\* the validation data and the evaluation passes over it
evaluations == <<val_data, passes>>

\* the state of the open-set methods of a runner
openset == <<samples, weibull_args, openmax_scores, weibull_model>>

\* the runner objects main builds
runners == <<trainer, val_evaluator>>

\* the state of a runner inside a call of train_epoch or evaluate
runner == <<runner_class, method, at, epoch_num, dataloader, yielded, mean_loss,
            epoch_loss, total_samples, grad, stepped, raised, keep_all, per_batch,
            result>>

(***************************************************************************)
(* Bounds                                                                  *)
(***************************************************************************)
MaxEpochs == 2          \* a run trains at most this many epochs
MaxVal == 1             \* metric values are 0..MaxVal
MaxMilestone == 2       \* number of epochs a milestone of config.lr_step can be
MaxLrSteps == 2         \* length of config.lr_step
NumBatches == 2         \* len(train_loader)
MaxBatch == 2           \* a batch has at most this many samples / active elements

Vals == 0 .. MaxVal

(***************************************************************************)
(* Program constants                                                       *)
(***************************************************************************)
NEG_METRICS == {"loss"}

BestSentinel == 1000000000

\* start_epoch: 0 for a fresh run, else the epoch of the checkpoint resumed from
StartEpochs == {0, 99}

(***************************************************************************)
(* Rationals                                                               *)
(***************************************************************************)
RMul(a, b) == <<a[1] * b[1], a[2] * b[2]>>

REq(a, b) == a[1] * b[2] = b[1] * a[2]

RAdd(a, b) == <<a[1] * b[2] + b[1] * a[2], a[2] * b[2]>>

\* config.lr_factor for n milestones: one factor replicated over the milestones, or
\* one factor of its own per milestone (1/2, 1/10, 1/20, ...)
FactorLists(n) ==
    {[i \in 1 .. n |-> <<1, 2>>],
     [i \in 1 .. n |-> <<1, IF i = 1 THEN 2 ELSE 10 * (i - 1)>>]}

InitialLr == <<1, 1>>

(***************************************************************************)
(* Ordered metric maps                                                     *)
(***************************************************************************)
Has(m, key) == \E i \in 1 .. Len(m) : m[i].k = key

Get(m, key) == m[CHOOSE i \in 1 .. Len(m) : m[i].k = key].v

Put(m, key, val) ==
    IF Has(m, key)
    THEN [i \in 1 .. Len(m) |-> IF m[i].k = key THEN [k |-> key, v |-> val] ELSE m[i]]
    ELSE Append(m, [k |-> key, v |-> val])

Keys(m) == [i \in 1 .. Len(m) |-> m[i].k]

Values(m) == [i \in 1 .. Len(m) |-> m[i].v]

(***************************************************************************)
(* Runner.  The model is a black box that is a pure function of its        *)
(* parameters and the batch; the parameters are abstracted to a quality q  *)
(* in Vals, and a pass over the data with parameters of quality q reports  *)
(* loss MaxVal - q and the value q for every metric of the analyzer.       *)
(***************************************************************************)
Outcome(q) == [loss |-> MaxVal - q, accuracy |-> q]

\* model.num_classes of the problems: a 2-class one and one with more classes
Classes == {2, 3}

\* str(i + 1) of running.py:463 and 546, for the class index i + 1
ClassNo == <<"1", "2", "3", "4">>

\* running.py:463, 546: heads = m + '-cls-' + str(i + 1)
heads(m, i) == m \o "-cls-" \o ClassNo[i]

\* the keys running.py:455-464 and 538-547 write, in that order, for n classes
ClassificationKeys ==
    [n \in Classes |->
        <<"accuracy", "precision", "recall", "f1">>
            \o [i \in 1 .. n |-> heads("precision", i)]
            \o [i \in 1 .. n |-> heads("recall", i)]
            \o [i \in 1 .. n |-> heads("f1", i)]]

\* m[k] = val for the keys k, in their order: a key m has keeps its place, a new one
\* goes to the end
PutAll(m, keys, val) ==
    LET names == {keys[j] : j \in 1 .. Len(keys)}
        had == {m[i].k : i \in 1 .. Len(m)}
        old == [i \in 1 .. Len(m) |->
                   IF m[i].k \in names THEN [k |-> m[i].k, v |-> val] ELSE m[i]]
        fresh == SelectSeq(keys, LAMBDA key : key \notin had)
    IN  old \o [i \in 1 .. Len(fresh) |-> [k |-> fresh[i], v |-> val]]

\* epoch_metrics that writes 'loss' before 'epoch'
epoch_metrics_loss_first(m, num, loss_value) ==
    LET with_loss == Put(m, "loss", loss_value) IN Put(with_loss, "epoch", num)

\* running.py:315-316, 368-369, 441-442, 523-524
epoch_metrics(m, num, loss_value) ==
    LET with_epoch == Put(m, "epoch", num) IN Put(with_epoch, "loss", loss_value)

\* running.py:440-466, the map SupervisedRunner.train_epoch returns
train_epoch_metrics(m, num, out, n) ==
    LET em == epoch_metrics(m, num, out.loss)
    IN  PutAll(em, ClassificationKeys[n], out.accuracy)

\* running.py:522-559, the map SupervisedRunner.evaluate returns
evaluate_metrics(m, num, out, n) ==
    LET em == epoch_metrics(m, num, out.loss)
        cm == PutAll(em, ClassificationKeys[n], out.accuracy)
    IN  IF n = 2 THEN PutAll(cm, <<"AUROC", "AUPRC">>, out.accuracy) ELSE cm

(***************************************************************************)
(* utils.save_model(path, epoch, model, optimizer=None)                    *)
(***************************************************************************)
FileName(stem, num) == [stem |-> stem, num |-> num]

\* model_mark that ignores save_all
model_mark_last(save_all, e) == FileName("last", 0)

model_mark(save_all, e) ==
    IF save_all THEN FileName("epoch", e) ELSE FileName("last", 0)

Checkpoint(e, model, optimizer) ==
    [epoch |-> e, state_dict |-> model, optimizer |-> optimizer]

save_model(dir, name, ckpt) ==
    [n \in (DOMAIN dir) \cup {name} |-> IF n = name THEN ckpt ELSE dir[n]]

(***************************************************************************)
(* running.py: validate, the part after the evaluation pass                *)
(***************************************************************************)
\* condition with "<=" for "<"
condition_le(aggr_metrics, key_metric, best) ==
    IF key_metric \in NEG_METRICS
    THEN Get(aggr_metrics, key_metric) <= best
    ELSE Get(aggr_metrics, key_metric) > best

\* condition with ">=" for ">"
condition_ge(aggr_metrics, key_metric, best) ==
    IF key_metric \in NEG_METRICS
    THEN Get(aggr_metrics, key_metric) < best
    ELSE Get(aggr_metrics, key_metric) >= best

\* condition with the two directions exchanged
condition_flipped(aggr_metrics, key_metric, best) ==
    IF key_metric \in NEG_METRICS
    THEN Get(aggr_metrics, key_metric) > best
    ELSE Get(aggr_metrics, key_metric) < best

condition(aggr_metrics, key_metric, best) ==
    IF key_metric \in NEG_METRICS
    THEN Get(aggr_metrics, key_metric) < best
    ELSE Get(aggr_metrics, key_metric) > best

\* best_update with best_metrics = aggr_metrics.copy() outside the "if condition"
best_update_copies(aggr_metrics, key_metric, bm, bv) ==
    IF condition(aggr_metrics, key_metric, bv)
    THEN [improved |-> TRUE, best_metrics |-> aggr_metrics,
          best_value |-> Get(aggr_metrics, key_metric)]
    ELSE [improved |-> FALSE, best_metrics |-> aggr_metrics, best_value |-> bv]

\* best_update with best_metrics = aggr_metrics, no copy: once set, best_metrics is
\* the evaluator's map itself and shows whatever the latest pass wrote into it
best_update_no_copy(aggr_metrics, key_metric, bm, bv) ==
    IF condition(aggr_metrics, key_metric, bv)
    THEN [improved |-> TRUE, best_metrics |-> aggr_metrics,
          best_value |-> Get(aggr_metrics, key_metric)]
    ELSE [improved |-> FALSE, best_metrics |-> IF bm = <<>> THEN bm ELSE aggr_metrics,
          best_value |-> bv]

\* running.py:207-210, the best tracking state validate returns
best_update(aggr_metrics, key_metric, bm, bv) ==
    IF condition(aggr_metrics, key_metric, bv)
    THEN [improved |-> TRUE, best_metrics |-> aggr_metrics,
          best_value |-> Get(aggr_metrics, key_metric)]
    ELSE [improved |-> FALSE, best_metrics |-> bm, best_value |-> bv]

\* advance without the increment
advance_never(step, n) == step

\* advance without the guard against running out of bounds
advance_unclamped(step, n) == step + 1

\* main.py:366-367, n is len(config['lr_step'])
advance(step, n) == IF step < n - 1 THEN step + 1 ELSE step

InitialBest(key_metric) ==
    IF key_metric \in NEG_METRICS THEN BestSentinel ELSE -BestSentinel

HardenEpochs == {100, 140, 160, 220, 280, 340}

\* check_progress that answers one epoch late
check_progress_late(e) == e - 1 \in HardenEpochs

check_progress(e) == e \in HardenEpochs

\* harden has no effect in a run that ends before the first of these epochs: it is
\* varied only in the runs that reach it
FirstHarden == CHOOSE e \in HardenEpochs : \A d \in HardenEpochs : e <= d

\* count that counts the batch, not its samples
count_batches(total, b) == total + 1

\* running.py:311, 364, 437, 519: total_samples += len(loss)
count(total, b) == total + b.n

\* param.grad of the model parameters: the batches whose gradients are accumulated
\* in it (by their position in the iteration) and the norm bound it was clipped to,
\* 0 while unclipped; None before the first backward pass
NoGrad == [of |-> {}, max_norm |-> 0]

(***************************************************************************)
(* State after the construction of model, optimizer, loaders and runners   *)
(* (main.py:43-243)                                                        *)
(***************************************************************************)
KeyMetrics == {"loss", "accuracy"}

\* the milestone epochs of config.lr_step: the first epochs of a fresh run; in a
\* resumed run the epoch resumed from and the ones after it
Milestones(s) ==
    LET first == IF s > 0 THEN s ELSE 1 IN first .. first + MaxMilestone - 1

\* pipeline_factory that returns the supervised pipeline for every task
pipeline_factory_any(task) == "SupervisedRunner"

\* running.py:28-36, the runner class of the triple returned, or the error raised
pipeline_factory(task) ==
    IF task = "classification" \/ task = "regression"
    THEN "SupervisedRunner"
    ELSE "NotImplementedError"

\* Python's None, outside the numbers a metric or an option can be
None == 0 - 1

\* config['l2_reg'] and config['global_reg'] of a run without regularisation
NoReg == [l2_reg |-> 0, global_reg |-> FALSE]

\* main.py:188-192: the weight_decay the optimizer is built with
weight_decay_of(r) == IF r.global_reg THEN r.l2_reg ELSE 0

\* output_reg that is the configured strength whatever global_reg says
output_reg_always(r) == r.l2_reg

\* main.py:188-193: the l2_reg the trainer is built with
output_reg(r) == IF r.global_reg THEN None ELSE r.l2_reg

\* main.py:187-243 for a run resumed from epoch s (0: a fresh run) with the
\* configuration given, the regularisation options r and a model of quality q for c
\* classes, at the stage given: "optimizer" is main before main.py:187, "pipeline" is
\* main before the call of pipeline_factory (main.py:212), with the model and the
\* optimizer built and no runner yet; "setup" is main before main.py:245
SetupWith(r, stage, task, s, epochs, steps, factors, key, sa, h, t, q, c) ==
    /\ config = [task |-> task, key_metric |-> key, save_all |-> sa, harden |-> h,
                 epochs |-> epochs, lr |-> InitialLr, lr_step |-> steps,
                 lr_factor |-> factors, test_only |-> t]
    /\ start_epoch = s
    /\ pc = stage
    /\ epoch = s
    /\ mark = model_mark(sa, s)
    /\ lr_step = 0
    /\ lr = InitialLr
    /\ param_groups = <<InitialLr>>
    /\ params = q
    /\ opt_steps = 0
    /\ training = TRUE
    /\ trainer_metrics = <<>>
    /\ evaluator_metrics = <<>>
    /\ best_value = InitialBest(key)
    /\ best_metrics = <<>>
    /\ val_metrics = <<>>
    /\ train_metrics = <<>>
    /\ metrics_names = <<>>
    /\ save_dir = <<>>
    /\ pred_dir = <<>>
    /\ writes = [best |-> 0, dump |-> 0]
    /\ difficulty = [train |-> 0, val |-> 0]
    /\ exported = <<>>
    /\ records = <<>>
    /\ ret = [kind |-> "running", value |-> 0]
    /\ num_classes = c
    /\ runner_class = IF stage \in {"optimizer", "pipeline"}
                      THEN "none"
                      ELSE pipeline_factory(task)
    /\ trainer = runner_class
    /\ val_evaluator = runner_class
    /\ method = "none"
    /\ at = "idle"
    /\ epoch_num = 0
    /\ dataloader = NumBatches
    /\ yielded = <<>>
    /\ mean_loss = <<0, 1>>
    /\ epoch_loss = 0
    /\ total_samples = 0
    /\ grad = NoGrad
    /\ stepped = <<>>
    /\ raised = "none"
    /\ keep_all = TRUE
    /\ per_batch = <<>>
    /\ result = "none"
    /\ samples = <<>>
    /\ weibull_args = <<>>
    /\ openmax_scores = <<>>
    /\ weibull_model = <<>>
    /\ reg = r
    /\ weight_decay = IF stage = "optimizer" THEN None ELSE weight_decay_of(r)
    /\ l2_reg = IF stage \in {"optimizer", "pipeline"} THEN None ELSE output_reg(r)
    /\ total_loss = <<0, 1>>
    /\ val_data = <<>>
    /\ passes = <<>>

\* the same for a run without regularisation
SetupFrom(stage, task, s, epochs, steps, factors, key, sa, h, t, q, c) ==
    SetupWith(NoReg, stage, task, s, epochs, steps, factors, key, sa, h, t, q, c)

\* main.py:196-243: main has built the optimizer, the runners of a classification
\* task (main.py:212-235) and the bookkeeping of the run, and is before main.py:245
Setup(s, epochs, steps, factors, key, sa, h, t, q, c) ==
    SetupFrom("setup", "classification", s, epochs, steps, factors, key, sa, h, t, q, c)

\* the runs of a problem with more than two classes
Init ==
    \E s \in StartEpochs, k \in -1 .. MaxEpochs, n \in 1 .. MaxLrSteps, q \in Vals,
       c \in Classes \ {2} :
    \E steps \in [1 .. n -> Milestones(s)], factors \in FactorLists(n),
       key \in KeyMetrics, sa \in BOOLEAN, h \in BOOLEAN, t \in {"testset", "none"} :
        /\ s + k >= 0
        /\ h => s + k >= FirstHarden
        /\ Setup(s, s + k, steps, factors, key, sa, h, t, q, c)

(***************************************************************************)
(* running.py:176-222 validate, called from main with the result threaded  *)
(* back into best_metrics / best_value and the row appended to val_metrics *)
(* (main.py:301-304 and 337-340)                                           *)
(***************************************************************************)
validate(e) ==
    \E aggr_metrics \in {evaluate_metrics(evaluator_metrics, e, Outcome(params), num_classes)} :
    \E r \in {best_update(aggr_metrics, config.key_metric, best_metrics, best_value)} :
        /\ training' = FALSE
        /\ evaluator_metrics' = aggr_metrics
        /\ best_value' = r.best_value
        /\ best_metrics' = r.best_metrics
        /\ IF r.improved
           THEN /\ save_dir' = save_model(save_dir, FileName("best", 0),
                                          Checkpoint(e, params, <<>>))
                /\ pred_dir' = <<[epoch |-> e, predictions |-> params]>>
                /\ writes' = [best |-> writes.best + 1, dump |-> writes.dump + 1]
           ELSE UNCHANGED <<save_dir, pred_dir, writes>>
        /\ metrics_names' = Keys(aggr_metrics)
        /\ val_metrics' = Append(val_metrics, Values(aggr_metrics))

\* TestOnly that evaluates through validate, as the training run does
TestOnly_validates ==
    /\ pc = "setup"
    /\ config.test_only = "testset"
    /\ validate(0)
    /\ ret' = [kind |-> "none", value |-> 0]
    /\ pc' = "returned"
    /\ UNCHANGED <<evaluations, routing, openset, runners, runner, num_classes, config,
                   start_epoch, epoch, mark, lr_step, lr, param_groups, params, opt_steps,
                   trainer_metrics, train_metrics, difficulty, exported, records>>

\* main.py:245-298
TestOnly ==
    /\ pc = "setup"
    /\ config.test_only = "testset"
    /\ evaluator_metrics' = evaluate_metrics(evaluator_metrics, 0, Outcome(params),
                                             num_classes)
    /\ training' = FALSE
    /\ ret' = [kind |-> "none", value |-> 0]
    /\ pc' = "returned"
    /\ UNCHANGED <<evaluations, routing, openset, runners, runner, num_classes, config, start_epoch, epoch, mark, lr_step, lr, param_groups, params, opt_steps,
                   trainer_metrics, best_value, best_metrics, val_metrics, train_metrics,
                   metrics_names, save_dir, pred_dir, writes, difficulty, exported, records>>

\* InitialEval without the validation before training
InitialEval_skipped ==
    /\ pc = "setup"
    /\ config.test_only # "testset"
    /\ pc' = "loop"
    /\ UNCHANGED <<evaluations, routing, openset, runners, runner, num_classes, config, start_epoch, epoch, mark, lr_step, lr, param_groups, params,
                   opt_steps, training, trainer_metrics, evaluator_metrics, best_value,
                   best_metrics, val_metrics, train_metrics, metrics_names, save_dir,
                   pred_dir, writes, difficulty, exported, records, ret>>

\* main.py:300-304
InitialEval ==
    /\ pc = "setup"
    /\ config.test_only # "testset"
    /\ validate(0)
    /\ pc' = "loop"
    /\ UNCHANGED <<evaluations, routing, openset, runners, runner, num_classes, config, start_epoch, epoch, mark, lr_step, lr, param_groups, params, opt_steps,
                   trainer_metrics, train_metrics, difficulty, exported, records, ret>>

\* ForEpoch over range(start_epoch + 1, config["epochs"])
ForEpoch_short ==
    /\ pc = "loop"
    /\ IF epoch + 1 < config.epochs
       THEN /\ epoch' = epoch + 1
            /\ mark' = model_mark(config.save_all, epoch + 1)
            /\ pc' = "train"
       ELSE /\ pc' = "export"
            /\ UNCHANGED <<epoch, mark>>
    /\ UNCHANGED <<evaluations, routing, openset, runners, runner, num_classes, config, start_epoch, lr_step, lr, param_groups, params, opt_steps, training,
                   trainer_metrics, evaluator_metrics, best_value, best_metrics,
                   val_metrics, train_metrics, metrics_names, save_dir, pred_dir, writes,
                   difficulty, exported, records, ret>>

\* main.py:312-313
ForEpoch ==
    /\ pc = "loop"
    /\ IF epoch + 1 <= config.epochs
       THEN /\ epoch' = epoch + 1
            /\ mark' = model_mark(config.save_all, epoch + 1)
            /\ pc' = "train"
       ELSE /\ pc' = "export"
            /\ UNCHANGED <<epoch, mark>>
    /\ UNCHANGED <<evaluations, routing, openset, runners, runner, num_classes, config, start_epoch, lr_step, lr, param_groups, params, opt_steps, training,
                   trainer_metrics, evaluator_metrics, best_value, best_metrics,
                   val_metrics, train_metrics, metrics_names, save_dir, pred_dir, writes,
                   difficulty, exported, records, ret>>

\* TrainEpoch without main.py:317-318
TrainEpoch_no_row ==
    /\ pc = "train"
    /\ \E q \in Vals :
        /\ params' = q
        /\ trainer_metrics' = train_epoch_metrics(trainer_metrics, epoch, Outcome(q),
                                                  num_classes)
    /\ training' = TRUE
    /\ opt_steps' = opt_steps + NumBatches
    /\ pc' = "validate"
    /\ UNCHANGED <<evaluations, routing, openset, runners, runner, num_classes, config, start_epoch, epoch, mark, lr_step, lr, param_groups,
                   evaluator_metrics, best_value, best_metrics, val_metrics,
                   train_metrics, metrics_names, save_dir, pred_dir, writes, difficulty,
                   exported, records, ret>>

\* TrainEpoch that writes the rolling checkpoint at the end of the training pass
TrainEpoch_saves ==
    /\ pc = "train"
    /\ \E q \in Vals :
        /\ params' = q
        /\ trainer_metrics' = train_epoch_metrics(trainer_metrics, epoch, Outcome(q),
                                                  num_classes)
        /\ train_metrics' = Append(train_metrics, Values(trainer_metrics'))
        /\ save_dir' = save_model(save_dir, mark, Checkpoint(epoch, q, param_groups))
    /\ training' = TRUE
    /\ opt_steps' = opt_steps + NumBatches
    /\ pc' = "validate"
    /\ UNCHANGED <<evaluations, routing, openset, runners, runner, num_classes, config, start_epoch, epoch, mark, lr_step, lr, param_groups,
                   evaluator_metrics, best_value, best_metrics, val_metrics,
                   metrics_names, pred_dir, writes, difficulty, exported,
                   records, ret>>

\* main.py:315-318 with running.py:392-466
TrainEpoch ==
    /\ pc = "train"
    /\ \E q \in Vals :
        /\ params' = q
        /\ trainer_metrics' = train_epoch_metrics(trainer_metrics, epoch, Outcome(q),
                                                  num_classes)
        /\ train_metrics' = Append(train_metrics, Values(trainer_metrics'))
    /\ training' = TRUE
    /\ opt_steps' = opt_steps + NumBatches
    /\ pc' = "validate"
    /\ UNCHANGED <<evaluations, routing, openset, runners, runner, num_classes, config, start_epoch, epoch, mark, lr_step, lr, param_groups,
                   evaluator_metrics, best_value, best_metrics, val_metrics,
                   metrics_names, save_dir, pred_dir, writes, difficulty, exported,
                   records, ret>>

\* main.py:337-340
Validate ==
    /\ pc = "validate"
    /\ validate(epoch)
    /\ pc' = "save"
    /\ UNCHANGED <<evaluations, routing, openset, runners, runner, num_classes, config, start_epoch, epoch, mark, lr_step, lr, param_groups, params, opt_steps,
                   trainer_metrics, train_metrics, difficulty, exported, records, ret>>

\* SaveModel placed before the call of validate
SaveModel_early ==
    /\ pc = "validate"
    /\ save_dir' = save_model(save_dir, mark, Checkpoint(epoch, params, param_groups))
    /\ pc' = "validate"
    /\ UNCHANGED <<evaluations, routing, openset, runners, runner, num_classes, config, start_epoch, epoch, mark, lr_step, lr, param_groups, params,
                   opt_steps, training, trainer_metrics, evaluator_metrics, best_value,
                   best_metrics, val_metrics, train_metrics, metrics_names, pred_dir,
                   writes, difficulty, exported, records, ret>>

\* main.py:360
SaveModel ==
    /\ pc = "save"
    /\ save_dir' = save_model(save_dir, mark, Checkpoint(epoch, params, param_groups))
    /\ pc' = "lr"
    /\ UNCHANGED <<evaluations, routing, openset, runners, runner, num_classes, config, start_epoch, epoch, mark, lr_step, lr, param_groups, params, opt_steps,
                   training, trainer_metrics, evaluator_metrics, best_value, best_metrics,
                   val_metrics, train_metrics, metrics_names, pred_dir, writes,
                   difficulty, exported, records, ret>>

\* LrScheduling with the checkpoint of main.py:364 written after the rate change
LrScheduling_save_after ==
    /\ pc = "lr"
    /\ lr_step + 1 \in DOMAIN config.lr_step
    /\ epoch = config.lr_step[lr_step + 1] => lr_step + 1 \in DOMAIN config.lr_factor
    /\ IF epoch = config.lr_step[lr_step + 1]
       THEN /\ lr' = RMul(lr, config.lr_factor[lr_step + 1])
            /\ lr_step' = advance(lr_step, Len(config.lr_step))
            /\ param_groups' = [g \in DOMAIN param_groups |-> lr']
            /\ save_dir' = save_model(save_dir, FileName("epoch", epoch),
                                      Checkpoint(epoch, params, param_groups'))
       ELSE UNCHANGED <<save_dir, lr, lr_step, param_groups>>
    /\ pc' = "harden"
    /\ UNCHANGED <<evaluations, routing, openset, runners, runner, num_classes, config, start_epoch, epoch, mark, params, opt_steps, training,
                   trainer_metrics,
                   evaluator_metrics, best_value, best_metrics, val_metrics,
                   train_metrics, metrics_names, pred_dir, writes, difficulty, exported,
                   records, ret>>

\* LrScheduling without the loop over the parameter groups of main.py:369-370
LrScheduling_groups_stale ==
    /\ pc = "lr"
    /\ lr_step + 1 \in DOMAIN config.lr_step
    /\ epoch = config.lr_step[lr_step + 1] => lr_step + 1 \in DOMAIN config.lr_factor
    /\ IF epoch = config.lr_step[lr_step + 1]
       THEN /\ save_dir' = save_model(save_dir, FileName("epoch", epoch),
                                      Checkpoint(epoch, params, param_groups))
            /\ lr' = RMul(lr, config.lr_factor[lr_step + 1])
            /\ lr_step' = advance(lr_step, Len(config.lr_step))
            /\ param_groups' = param_groups
       ELSE UNCHANGED <<save_dir, lr, lr_step, param_groups>>
    /\ pc' = "harden"
    /\ UNCHANGED <<evaluations, routing, openset, runners, runner, num_classes, config, start_epoch, epoch, mark, params, opt_steps, training,
                   trainer_metrics,
                   evaluator_metrics, best_value, best_metrics, val_metrics,
                   train_metrics, metrics_names, pred_dir, writes, difficulty, exported,
                   records, ret>>

\* main.py:362-370; lr_step is 0-based in the source, sequences are 1-based here.
\* config['lr_step'][lr_step] raises IndexError when the index is out of range: the
\* step is then not enabled and the run ends there.
LrScheduling ==
    /\ pc = "lr"
    /\ lr_step + 1 \in DOMAIN config.lr_step
    /\ epoch = config.lr_step[lr_step + 1] => lr_step + 1 \in DOMAIN config.lr_factor
    /\ IF epoch = config.lr_step[lr_step + 1]
       THEN /\ save_dir' = save_model(save_dir, FileName("epoch", epoch),
                                      Checkpoint(epoch, params, param_groups))
            /\ lr' = RMul(lr, config.lr_factor[lr_step + 1])
            /\ lr_step' = advance(lr_step, Len(config.lr_step))
            /\ param_groups' = [g \in DOMAIN param_groups |-> lr']
       ELSE UNCHANGED <<save_dir, lr, lr_step, param_groups>>
    /\ pc' = "harden"
    /\ UNCHANGED <<evaluations, routing, openset, runners, runner, num_classes, config, start_epoch, epoch, mark, params, opt_steps, training,
                   trainer_metrics,
                   evaluator_metrics, best_value, best_metrics, val_metrics,
                   train_metrics, metrics_names, pred_dir, writes, difficulty, exported,
                   records, ret>>

\* main.py:372-375
DifficultyScheduling ==
    /\ pc = "harden"
    /\ IF config.harden /\ check_progress(epoch)
       THEN difficulty' = [train |-> difficulty.train + 1, val |-> difficulty.val + 1]
       ELSE UNCHANGED difficulty
    /\ pc' = "loop"
    /\ UNCHANGED <<evaluations, routing, openset, runners, runner, num_classes, config, start_epoch, epoch, mark, lr_step, lr, param_groups, params, opt_steps,
                   training, trainer_metrics, evaluator_metrics, best_value, best_metrics,
                   val_metrics, train_metrics, metrics_names, save_dir, pred_dir, writes,
                   exported, records, ret>>

\* main.py:377-394
Export ==
    /\ pc = "export"
    /\ exported' = <<[header |-> metrics_names, val |-> val_metrics,
                      train |-> train_metrics]>>
    /\ records' = Append(records, [best_metrics |-> best_metrics,
                                   final_metrics |-> evaluator_metrics])
    /\ ret' = [kind |-> "value", value |-> best_value]
    /\ pc' = "returned"
    /\ UNCHANGED <<evaluations, routing, openset, runners, runner, num_classes, config, start_epoch, epoch, mark, lr_step, lr, param_groups, params, opt_steps,
                   training, trainer_metrics, evaluator_metrics, best_value, best_metrics,
                   val_metrics, train_metrics, metrics_names, save_dir, pred_dir, writes,
                   difficulty>>

Next ==
    \/ TestOnly
    \/ InitialEval
    \/ ForEpoch
    \/ TrainEpoch
    \/ Validate
    \/ SaveModel
    \/ LrScheduling
    \/ DifficultyScheduling
    \/ Export

Spec == Init /\ [][Next]_vars

\* the runs of main told apart by what decides how long they are: the epochs,
\* the milestones, the curriculum and the test-only switch
FairInit ==
    \E s \in StartEpochs, k \in -1 .. MaxEpochs, n \in 1 .. MaxLrSteps :
    \E steps \in [1 .. n -> Milestones(s)], factors \in FactorLists(n),
       h \in BOOLEAN, t \in {"testset", "none"} :
        /\ s + k >= 0
        /\ h => s + k >= FirstHarden
        /\ Setup(s, s + k, steps, factors, "loss", FALSE, h, t, 0, 3)

\* main runs to its end: no stage of it blocks or waits
FairSpec == FairInit /\ [][Next]_vars /\ WF_vars(Next)

\* the fresh runs with one milestone, of a 2-class problem and of one with more classes
TablesInit ==
    \E k \in 0 .. MaxEpochs, q \in Vals, c \in Classes, key \in KeyMetrics,
       t \in {"testset", "none"} :
    \E steps \in [1 .. 1 -> Milestones(0)], factors \in FactorLists(1) :
        Setup(0, k, steps, factors, key, FALSE, FALSE, t, q, c)

TablesSpec == TablesInit /\ [][Next]_vars

(***************************************************************************)
(* main.py:212-235: the selection of the pipeline for config['task'] and   *)
(* the construction of the two runners, followed by the run                *)
(***************************************************************************)
Tasks == {"classification", "regression", "imputation"}

\* main.py:212 with running.py:28-36: the NotImplementedError of pipeline_factory
\* is not caught in main and ends it
PipelineFactory ==
    /\ pc = "pipeline"
    /\ IF pipeline_factory(config.task) = "NotImplementedError"
       THEN /\ raised' = "NotImplementedError"
            /\ pc' = "raised"
            /\ UNCHANGED runner_class
       ELSE /\ runner_class' = pipeline_factory(config.task)
            /\ pc' = "runners"
            /\ UNCHANGED raised
    /\ UNCHANGED <<evaluations, routing, openset, runners, num_classes, config, start_epoch, epoch, mark, lr_step, lr,
                   param_groups, params, opt_steps, training, trainer_metrics,
                   evaluator_metrics, best_value, best_metrics, val_metrics,
                   train_metrics, metrics_names, save_dir, pred_dir, writes, difficulty,
                   exported, records, ret, method, at, epoch_num, dataloader, yielded,
                   mean_loss, epoch_loss, total_samples, grad, stepped, keep_all,
                   per_batch, result>>

\* main.py:232-235: trainer and val_evaluator are instances of the class selected
BuildRunners ==
    /\ pc = "runners"
    /\ trainer' = runner_class
    /\ val_evaluator' = runner_class
    /\ l2_reg' = output_reg(reg)
    /\ pc' = "setup"
    /\ UNCHANGED <<evaluations, reg, weight_decay, total_loss, openset, runner, num_classes, config, start_epoch, epoch, mark, lr_step, lr,
                   param_groups, params, opt_steps, training, trainer_metrics,
                   evaluator_metrics, best_value, best_metrics, val_metrics,
                   train_metrics, metrics_names, save_dir, pred_dir, writes, difficulty,
                   exported, records, ret>>

\* the fresh runs of every task, before the pipeline is selected
PipelineInit ==
    \E task \in Tasks, k \in 0 .. MaxEpochs, q \in Vals, t \in {"testset", "none"} :
    \E steps \in [1 .. 1 -> Milestones(0)], factors \in FactorLists(1) :
        SetupFrom("pipeline", task, 0, k, steps, factors, "loss", FALSE, FALSE, t, q, 3)

PipelineNext ==
    \/ PipelineFactory
    \/ BuildRunners
    \/ Next

PipelineSpec == PipelineInit /\ [][PipelineNext]_vars

(***************************************************************************)
(* running.py:176-222: validate statement by statement, inside the run of  *)
(* main.  The analyzer behind the evaluation pass may have no value for a  *)
(* metric: the value of the map is then None.                              *)
(***************************************************************************)
\* the values the evaluation pass reports for a metric whose number would be x
Reported(x) == {x, None}

\* running.py:179-182, called from main.py:301 (epoch 0) and main.py:337
ValidateEvaluate ==
    /\ pc \in {"setup", "validate"}
    /\ pc = "setup" => config.test_only # "testset"
    /\ method = "none"
    /\ \E l \in Reported(Outcome(params).loss), a \in Reported(Outcome(params).accuracy) :
          evaluator_metrics' =
              evaluate_metrics(evaluator_metrics, IF pc = "setup" THEN 0 ELSE epoch,
                               [loss |-> l, accuracy |-> a], num_classes)
    /\ training' = FALSE
    /\ method' = "validate"
    /\ at' = "print"
    /\ UNCHANGED <<evaluations, routing, openset, runners, num_classes, config, start_epoch, pc, epoch, mark, lr_step, lr,
                   param_groups, params, opt_steps, trainer_metrics, best_value,
                   best_metrics, val_metrics, train_metrics, metrics_names, save_dir,
                   pred_dir, writes, difficulty, exported, records, ret, runner_class,
                   epoch_num, dataloader, yielded, mean_loss, epoch_loss, total_samples,
                   grad, stepped, raised, keep_all, per_batch, result>>

\* running.py:193-198: '{}: {:8f} | '.format(k, v) for every item of aggr_metrics;
\* the format of None raises TypeError, which nothing catches
ValidatePrint ==
    /\ method = "validate"
    /\ at = "print"
    /\ IF \E i \in 1 .. Len(evaluator_metrics) : evaluator_metrics[i].v = None
       THEN /\ raised' = "TypeError"
            /\ at' = "raised"
            /\ pc' = "raised"
       ELSE /\ at' = "condition"
            /\ UNCHANGED <<raised, pc>>
    /\ UNCHANGED <<evaluations, routing, openset, runners, num_classes, config, start_epoch, epoch, mark, lr_step, lr,
                   param_groups, params, opt_steps, training, trainer_metrics,
                   evaluator_metrics, best_value, best_metrics, val_metrics,
                   train_metrics, metrics_names, save_dir, pred_dir, writes, difficulty,
                   exported, records, ret, runner_class, method, epoch_num, dataloader,
                   yielded, mean_loss, epoch_loss, total_samples, grad, stepped,
                   keep_all, per_batch, result>>

\* running.py:200-222 and the statements of main after the call (main.py:302-304,
\* 338-340)
ValidateCondition ==
    /\ method = "validate"
    /\ at = "condition"
    /\ \E r \in {best_update(evaluator_metrics, config.key_metric, best_metrics,
                            best_value)} :
          /\ best_value' = r.best_value
          /\ best_metrics' = r.best_metrics
          /\ IF r.improved
             THEN /\ save_dir' = save_model(save_dir, FileName("best", 0),
                                            Checkpoint(IF pc = "setup" THEN 0 ELSE epoch,
                                                       params, <<>>))
                  /\ pred_dir' = <<[epoch |-> IF pc = "setup" THEN 0 ELSE epoch,
                                    predictions |-> params]>>
                  /\ writes' = [best |-> writes.best + 1, dump |-> writes.dump + 1]
             ELSE UNCHANGED <<save_dir, pred_dir, writes>>
    /\ metrics_names' = Keys(evaluator_metrics)
    /\ val_metrics' = Append(val_metrics, Values(evaluator_metrics))
    /\ method' = "none"
    /\ at' = "idle"
    /\ pc' = IF pc = "setup" THEN "loop" ELSE "save"
    /\ UNCHANGED <<evaluations, routing, openset, runners, num_classes, config, start_epoch, epoch, mark, lr_step, lr,
                   param_groups, params, opt_steps, training, trainer_metrics,
                   evaluator_metrics, train_metrics, difficulty, exported, records, ret,
                   runner_class, epoch_num, dataloader, yielded, mean_loss, epoch_loss,
                   total_samples, grad, stepped, raised, keep_all, per_batch, result>>

\* the fresh runs with one milestone
ValidateInit ==
    \E k \in 0 .. MaxEpochs, q \in Vals, key \in KeyMetrics, t \in {"testset", "none"} :
    \E steps \in [1 .. 1 -> Milestones(0)], factors \in FactorLists(1) :
        Setup(0, k, steps, factors, key, FALSE, FALSE, t, q, 3)

\* Next with the validation of InitialEval and Validate taken statement by statement
ValidateNext ==
    \/ TestOnly
    \/ ValidateEvaluate
    \/ ValidatePrint
    \/ ValidateCondition
    \/ ForEpoch
    \/ TrainEpoch
    \/ SaveModel
    \/ LrScheduling
    \/ DifficultyScheduling
    \/ Export

ValidateSpec == ValidateInit /\ [][ValidateNext]_vars

(***************************************************************************)
(* running.py:267-559: one call of train_epoch or of evaluate, statement   *)
(* by statement.  The trainer and the evaluator are two runner objects on  *)
(* one model (main.py:232-235): train_epoch runs on the trainer and writes *)
(* trainer_metrics, evaluate runs on the evaluator and writes              *)
(* evaluator_metrics; both set the one mode flag of the model.  The epoch  *)
(* loss is the exact rational <<epoch_loss, total_samples>>.               *)
(***************************************************************************)
RunnerClasses == {"SupervisedRunner", "UnsupervisedRunner"}

\* what the loss module gives for a batch: n is len(loss), the number of samples
\* (supervised) or of active elements (unsupervised), batch_loss is torch.sum(loss).
\* A DataLoader yields no empty batch; a batch of the unsupervised runner can be
\* without any active element, and its loss tensor is then empty.
Batches(cls) ==
    {[n |-> n, batch_loss |-> l] : n \in 1 .. MaxBatch, l \in 0 .. MaxVal}
        \cup (IF cls = "UnsupervisedRunner" THEN {[n |-> 0, batch_loss |-> 0]} ELSE {})

\* running.py:302, 428
max_norm == 4

\* the batch of the current iteration
batch == yielded[Len(yielded)]

\* the variables of main a runner has no access to
caller == <<config, start_epoch, pc, epoch, mark, lr_step, lr, param_groups, best_value,
            best_metrics, val_metrics, train_metrics, metrics_names, save_dir, pred_dir,
            writes, difficulty, exported, records, ret, num_classes, runner_class,
            method, epoch_num, dataloader, keep_all, trainer, val_evaluator, samples,
            weibull_args, openmax_scores, weibull_model, reg, weight_decay, val_data,
            passes>>

\* the keys of the per_batch dict a call creates (running.py:326-327, 398, 475);
\* UnsupervisedRunner.train_epoch has none, and its evaluate only with keep_all
PerBatchKeys(cls, m, ka) ==
    IF cls = "SupervisedRunner"
    THEN IF m = "train_epoch" THEN <<"predictions", "targets">>
         ELSE <<"target_masks", "targets", "predictions", "recon", "metrics", "IDs">>
    ELSE IF m = "evaluate" /\ ka
         THEN <<"target_masks", "targets", "predictions", "metrics", "IDs">>
         ELSE <<>>

\* the keys a call appends an entry to for every batch (running.py:352-357, 414-415,
\* 505-509)
CollectedKeys(cls, m, ka) ==
    IF cls = "SupervisedRunner"
    THEN IF m = "train_epoch" THEN {"predictions", "targets"}
         ELSE {"targets", "predictions", "recon", "IDs"}
    ELSE IF m = "evaluate" /\ ka
         THEN {"target_masks", "targets", "predictions", "metrics", "IDs"}
         ELSE {}

\* {key: [] for key in keys}
NewPerBatch(keys) == [i \in 1 .. Len(keys) |-> [k |-> keys[i], v |-> <<>>]]

\* per_batch[key].append(entry) for the keys given
AppendAll(pb, keys, entry) ==
    [i \in 1 .. Len(pb) |->
        IF pb[i].k \in keys THEN [k |-> pb[i].k, v |-> Append(pb[i].v, entry)] ELSE pb[i]]

\* the map a runner of class cls holds after an earlier call
Earlier(cls, m, c) ==
    LET out == [loss |-> <<1, 1>>, accuracy |-> 0]
    IN  IF cls = "UnsupervisedRunner" THEN epoch_metrics(<<>>, 0, out.loss)
        ELSE IF m = "train_epoch" THEN train_epoch_metrics(<<>>, 0, out, c)
        ELSE evaluate_metrics(<<>>, 0, out, c)

\* main is at a call of trainer.train_epoch (main.py:315) or, inside validate, of
\* val_evaluator.evaluate (running.py:182); the model is in the mode the call before
\* left it in
RunnerInit ==
    \E cls \in RunnerClasses, m \in {"train_epoch", "evaluate"}, e \in 0 .. 1,
       len \in 0 .. NumBatches, c \in Classes, first \in BOOLEAN, ka \in BOOLEAN :
        /\ m = "train_epoch" => e = 1 /\ ka
        /\ cls = "UnsupervisedRunner" => c = 2
        /\ config = [task |-> "classification", key_metric |-> "loss",
                     save_all |-> FALSE, harden |-> FALSE, epochs |-> 1, lr |-> InitialLr, lr_step |-> <<1>>,
                     lr_factor |-> <<<<1, 2>>>>, test_only |-> "none"]
        /\ start_epoch = 0
        /\ pc = IF m = "train_epoch" THEN "train" ELSE IF e = 0 THEN "setup" ELSE "validate"
        /\ epoch = e
        /\ mark = model_mark(FALSE, e)
        /\ lr_step = 0
        /\ lr = InitialLr
        /\ param_groups = <<InitialLr>>
        /\ params = 0
        /\ opt_steps = 0
        /\ training = (m = "evaluate")
        /\ trainer_metrics = IF first \/ m = "evaluate" THEN <<>> ELSE Earlier(cls, m, c)
        /\ evaluator_metrics = IF first \/ m = "train_epoch" THEN <<>> ELSE Earlier(cls, m, c)
        /\ best_value = InitialBest("loss")
        /\ best_metrics = <<>>
        /\ val_metrics = <<>>
        /\ train_metrics = <<>>
        /\ metrics_names = <<>>
        /\ save_dir = <<>>
        /\ pred_dir = <<>>
        /\ writes = [best |-> 0, dump |-> 0]
        /\ difficulty = [train |-> 0, val |-> 0]
        /\ exported = <<>>
        /\ records = <<>>
        /\ ret = [kind |-> "running", value |-> 0]
        /\ num_classes = c
        /\ runner_class = cls
        /\ method = m
        /\ at = "call"
        /\ epoch_num = e
        /\ dataloader = len
        /\ yielded = <<>>
        /\ mean_loss = <<0, 1>>
        /\ epoch_loss = 0
        /\ total_samples = 0
        /\ grad = NoGrad
        /\ stepped = <<>>
        /\ raised = "none"
        /\ keep_all = ka
        /\ per_batch = <<>>
        /\ result = "none"
        /\ trainer = runner_class
        /\ val_evaluator = runner_class
        /\ samples = <<>>
        /\ weibull_args = <<>>
        /\ openmax_scores = <<>>
        /\ weibull_model = <<>>
        /\ reg = NoReg
        /\ weight_decay = weight_decay_of(NoReg)
        /\ l2_reg = None
        /\ total_loss = <<0, 1>>
        /\ val_data = <<>>
        /\ passes = <<>>

\* running.py:271-274 and 394-398
TrainEnter ==
    /\ method = "train_epoch"
    /\ at = "call"
    /\ training' = TRUE
    /\ per_batch' = NewPerBatch(PerBatchKeys(runner_class, "train_epoch", keep_all))
    /\ epoch_loss' = 0
    /\ total_samples' = 0
    /\ at' = "for"
    /\ UNCHANGED <<caller, l2_reg, total_loss, result, params, opt_steps, trainer_metrics, evaluator_metrics,
                   yielded, mean_loss, grad, stepped, raised>>

\* running.py:275 and 400: the loader yields its next batch, or the loop is over
TrainNext ==
    /\ method = "train_epoch"
    /\ at = "for"
    /\ IF Len(yielded) < dataloader
       THEN /\ \E b \in Batches(runner_class) : yielded' = Append(yielded, b)
            /\ at' = "loss"
       ELSE /\ at' = "mean"
            /\ UNCHANGED yielded
    /\ UNCHANGED <<caller, l2_reg, total_loss, per_batch, result, training, params, opt_steps, trainer_metrics,
                   evaluator_metrics, mean_loss, epoch_loss, total_samples, grad,
                   stepped, raised>>

\* models.loss.l2_reg_loss: the penalty of the model parameters, a positive number
l2_reg_loss(model) == model + 1

\* running.py:292-295 and 418-421: "if self.l2_reg" is false for None and for 0
objective(mean, strength, model) ==
    IF strength # None /\ strength # 0
    THEN RAdd(mean, <<strength * l2_reg_loss(model), 1>>)
    ELSE mean

\* running.py:283-295 and 405-421: batch_loss is a tensor, and the division of a
\* tensor by len(loss) = 0 gives nan, here <<0, 0>>, and raises nothing
TrainLoss ==
    /\ method = "train_epoch"
    /\ at = "loss"
    /\ mean_loss' = <<batch.batch_loss, batch.n>>
    /\ total_loss' = objective(mean_loss', l2_reg, params)
    /\ per_batch' = AppendAll(per_batch, CollectedKeys(runner_class, "train_epoch", keep_all),
                            Len(yielded))
    /\ at' = "zero_grad"
    /\ UNCHANGED <<caller, l2_reg, result, training, params, opt_steps, trainer_metrics,
                   evaluator_metrics, yielded, epoch_loss, total_samples, grad, stepped,
                   raised>>

\* ZeroGrad that leaves the gradient buffers as they are
ZeroGrad_skipped ==
    /\ at = "zero_grad"
    /\ at' = "backward"
    /\ UNCHANGED <<caller, l2_reg, total_loss, per_batch, result, training, params, opt_steps, trainer_metrics,
                   evaluator_metrics, yielded, mean_loss, epoch_loss, total_samples,
                   grad, stepped, raised>>

\* running.py:298 and 424
ZeroGrad ==
    /\ at = "zero_grad"
    /\ grad' = [of |-> {}, max_norm |-> 0]
    /\ at' = "backward"
    /\ UNCHANGED <<caller, l2_reg, total_loss, per_batch, result, training, params, opt_steps, trainer_metrics,
                   evaluator_metrics, yielded, mean_loss, epoch_loss, total_samples,
                   stepped, raised>>

\* running.py:299 and 425: backward adds the gradients of this batch to the buffers
Backward ==
    /\ at = "backward"
    /\ grad' = [of |-> grad.of \cup {Len(yielded)}, max_norm |-> 0]
    /\ at' = "clip"
    /\ UNCHANGED <<caller, l2_reg, total_loss, per_batch, result, training, params, opt_steps, trainer_metrics,
                   evaluator_metrics, yielded, mean_loss, epoch_loss, total_samples,
                   stepped, raised>>

\* running.py:302 and 428
ClipGradNorm ==
    /\ at = "clip"
    /\ grad' = [grad EXCEPT !.max_norm = max_norm]
    /\ at' = "step"
    /\ UNCHANGED <<caller, l2_reg, total_loss, per_batch, result, training, params, opt_steps, trainer_metrics,
                   evaluator_metrics, yielded, mean_loss, epoch_loss, total_samples,
                   stepped, raised>>

\* running.py:303 and 429: the step moves the parameters along the gradient buffers
OptimizerStep ==
    /\ at = "step"
    /\ \E q \in Vals : params' = q
    /\ opt_steps' = opt_steps + 1
    /\ stepped' = Append(stepped, [grad |-> grad, training |-> training])
    /\ at' = "accumulate"
    /\ UNCHANGED <<caller, l2_reg, total_loss, per_batch, result, training, trainer_metrics, evaluator_metrics, yielded,
                   mean_loss, epoch_loss, total_samples, grad, raised>>

\* running.py:310-312 and 436-438
TrainAccumulate ==
    /\ method = "train_epoch"
    /\ at = "accumulate"
    /\ total_samples' = count(total_samples, batch)
    /\ epoch_loss' = epoch_loss + batch.batch_loss
    /\ at' = "for"
    /\ UNCHANGED <<caller, l2_reg, total_loss, per_batch, result, training, params, opt_steps, trainer_metrics,
                   evaluator_metrics, yielded, mean_loss, grad, stepped, raised>>

\* running.py:314-317 and 440-466: epoch_loss and total_samples are Python numbers,
\* and their division raises ZeroDivisionError when total_samples is 0
TrainReturn ==
    /\ method = "train_epoch"
    /\ at = "mean"
    /\ IF total_samples = 0
       THEN /\ raised' = "ZeroDivisionError"
            /\ at' = "raised"
            /\ UNCHANGED <<trainer_metrics, result>>
       ELSE /\ trainer_metrics' =
                  IF runner_class = "UnsupervisedRunner"
                  THEN epoch_metrics(trainer_metrics, epoch_num,
                                     <<epoch_loss, total_samples>>)
                  ELSE train_epoch_metrics(trainer_metrics, epoch_num,
                                           [loss |-> <<epoch_loss, total_samples>>,
                                            accuracy |-> Outcome(params).accuracy],
                                           num_classes)
            /\ result' = IF runner_class = "SupervisedRunner"
                         THEN "metrics, per_batch" ELSE "metrics"
            /\ at' = "returned"
            /\ UNCHANGED raised
    /\ UNCHANGED <<caller, l2_reg, total_loss, per_batch, training, params, opt_steps, evaluator_metrics, yielded,
                   mean_loss, epoch_loss, total_samples, grad, stepped>>

\* EvalEnter without self.model.eval()
EvalEnter_no_eval ==
    /\ method = "evaluate"
    /\ at = "call"
    /\ epoch_loss' = 0
    /\ per_batch' = NewPerBatch(PerBatchKeys(runner_class, "evaluate", keep_all))
    /\ total_samples' = 0
    /\ at' = "for"
    /\ UNCHANGED <<caller, l2_reg, total_loss, result, training, params, opt_steps, trainer_metrics,
                   evaluator_metrics, yielded, mean_loss, grad, stepped, raised>>

\* running.py:321-327 and 470-475
EvalEnter ==
    /\ method = "evaluate"
    /\ at = "call"
    /\ training' = FALSE
    /\ epoch_loss' = 0
    /\ per_batch' = NewPerBatch(PerBatchKeys(runner_class, "evaluate", keep_all))
    /\ total_samples' = 0
    /\ at' = "for"
    /\ UNCHANGED <<caller, l2_reg, total_loss, result, params, opt_steps, trainer_metrics, evaluator_metrics,
                   yielded, mean_loss, grad, stepped, raised>>

\* running.py:328 and 477
EvalNext ==
    /\ method = "evaluate"
    /\ at = "for"
    /\ IF Len(yielded) < dataloader
       THEN /\ \E b \in Batches(runner_class) : yielded' = Append(yielded, b)
            /\ at' = "loss"
       ELSE /\ at' = "mean"
            /\ UNCHANGED yielded
    /\ UNCHANGED <<caller, l2_reg, total_loss, per_batch, result, training, params, opt_steps, trainer_metrics,
                   evaluator_metrics, mean_loss, epoch_loss, total_samples, grad,
                   stepped, raised>>

\* EvalLoss that goes on to the optimizer statements of train_epoch
EvalLoss_optimizes ==
    /\ method = "evaluate"
    /\ at = "loss"
    /\ IF batch.n = 0
       THEN /\ raised' = "ZeroDivisionError"
            /\ at' = "raised"
            /\ UNCHANGED <<mean_loss, per_batch>>
       ELSE /\ mean_loss' = <<batch.batch_loss, batch.n>>
            /\ per_batch' = AppendAll(per_batch,
                                    CollectedKeys(runner_class, "evaluate", keep_all),
                                    Len(yielded))
            /\ at' = "zero_grad"
            /\ UNCHANGED raised
    /\ UNCHANGED <<caller, l2_reg, total_loss, result, training, params, opt_steps, trainer_metrics,
                   evaluator_metrics, yielded, epoch_loss, total_samples, grad, stepped>>

\* running.py:343-350 and 495-502: batch_loss is a Python float here (.item()), and
\* its division by len(loss) = 0 raises ZeroDivisionError
EvalLoss ==
    /\ method = "evaluate"
    /\ at = "loss"
    /\ IF batch.n = 0
       THEN /\ raised' = "ZeroDivisionError"
            /\ at' = "raised"
            /\ UNCHANGED <<mean_loss, per_batch>>
       ELSE /\ mean_loss' = <<batch.batch_loss, batch.n>>
            /\ per_batch' = AppendAll(per_batch,
                                    CollectedKeys(runner_class, "evaluate", keep_all),
                                    Len(yielded))
            /\ at' = "accumulate"
            /\ UNCHANGED raised
    /\ UNCHANGED <<caller, l2_reg, total_loss, result, training, params, opt_steps, trainer_metrics,
                   evaluator_metrics, yielded, epoch_loss, total_samples, grad, stepped>>

\* running.py:364-365 and 519-520
EvalAccumulate ==
    /\ method = "evaluate"
    /\ at = "accumulate"
    /\ total_samples' = count(total_samples, batch)
    /\ epoch_loss' = epoch_loss + batch.batch_loss
    /\ at' = "for"
    /\ UNCHANGED <<caller, l2_reg, total_loss, per_batch, result, training, params, opt_steps, trainer_metrics,
                   evaluator_metrics, yielded, mean_loss, grad, stepped, raised>>

\* running.py:367-374 and 522-559
EvalReturn ==
    /\ method = "evaluate"
    /\ at = "mean"
    /\ IF total_samples = 0
       THEN /\ raised' = "ZeroDivisionError"
            /\ at' = "raised"
            /\ UNCHANGED <<evaluator_metrics, result>>
       ELSE /\ evaluator_metrics' =
                  IF runner_class = "UnsupervisedRunner"
                  THEN epoch_metrics(evaluator_metrics, epoch_num,
                                     <<epoch_loss, total_samples>>)
                  ELSE evaluate_metrics(evaluator_metrics, epoch_num,
                                        [loss |-> <<epoch_loss, total_samples>>,
                                         accuracy |-> Outcome(params).accuracy],
                                        num_classes)
            /\ result' = IF keep_all THEN "metrics, per_batch" ELSE "metrics"
            /\ at' = "returned"
            /\ UNCHANGED raised
    /\ UNCHANGED <<caller, l2_reg, total_loss, per_batch, training, params, opt_steps, trainer_metrics, yielded,
                   mean_loss, epoch_loss, total_samples, grad, stepped>>

RunnerNext ==
    \/ TrainEnter
    \/ TrainNext
    \/ TrainLoss
    \/ ZeroGrad
    \/ Backward
    \/ ClipGradNorm
    \/ OptimizerStep
    \/ TrainAccumulate
    \/ TrainReturn
    \/ EvalEnter
    \/ EvalNext
    \/ EvalLoss
    \/ EvalAccumulate
    \/ EvalReturn

RunnerSpec == RunnerInit /\ [][RunnerNext]_vars

(***************************************************************************)
(* main.py:187-196 and 232-235 with running.py:392-466: where the          *)
(* configured l2_reg goes.  main builds the optimizer and the trainer from *)
(* the regularisation options and, after the validation before training,   *)
(* calls train_epoch, which is taken statement by statement.               *)
(***************************************************************************)
\* the regularisation options of a run
Regs == [l2_reg : Vals, global_reg : BOOLEAN]

\* main.py:187-196
InitOptimizer ==
    /\ pc = "optimizer"
    /\ weight_decay' = weight_decay_of(reg)
    /\ pc' = "pipeline"
    /\ UNCHANGED <<evaluations, reg, l2_reg, total_loss, openset, runners, runner,
                   num_classes, config, start_epoch, epoch, mark, lr_step, lr,
                   param_groups, params, opt_steps, training, trainer_metrics,
                   evaluator_metrics, best_value, best_metrics, val_metrics,
                   train_metrics, metrics_names, save_dir, pred_dir, writes, difficulty,
                   exported, records, ret>>

\* main.py:315: the call of trainer.train_epoch(epoch)
TrainCall ==
    /\ pc = "train"
    /\ method = "none"
    /\ method' = "train_epoch"
    /\ at' = "call"
    /\ epoch_num' = epoch
    /\ UNCHANGED <<evaluations, routing, openset, runners, config, start_epoch, pc, epoch,
                   mark, lr_step, lr, param_groups, params, opt_steps, training,
                   trainer_metrics, evaluator_metrics, best_value, best_metrics,
                   val_metrics, train_metrics, metrics_names, save_dir, pred_dir, writes,
                   difficulty, exported, records, ret, num_classes, runner_class,
                   dataloader, yielded, mean_loss, epoch_loss, total_samples, grad,
                   stepped, raised, keep_all, per_batch, result>>

\* the fresh one-epoch runs of a classification task, before the optimizer is built
RegInit ==
    \E r \in Regs, q \in Vals :
        SetupWith(r, "optimizer", "classification", 0, 1, <<1>>, <<<<1, 2>>>>, "loss",
                  FALSE, FALSE, "none", q, 3)

RegNext ==
    \/ InitOptimizer
    \/ PipelineFactory
    \/ BuildRunners
    \/ InitialEval
    \/ ForEpoch
    \/ TrainCall
    \/ TrainEnter
    \/ TrainNext
    \/ TrainLoss
    \/ ZeroGrad
    \/ Backward
    \/ ClipGradNorm
    \/ OptimizerStep
    \/ TrainAccumulate
    \/ TrainReturn

RegSpec == RegInit /\ [][RegNext]_vars

(***************************************************************************)
(* running.py:232-251: a call of train_epoch or evaluate on a runner that  *)
(* is a BaseRunner itself.  It holds a model, a loader and, as a trainer,  *)
(* an optimizer like any runner; its epoch_metrics is the empty map of     *)
(* running.py:245.                                                         *)
(***************************************************************************)
BaseInit ==
    \E m \in {"train_epoch", "evaluate"}, e \in 0 .. 1, len \in 0 .. NumBatches,
       c \in Classes, ka \in BOOLEAN, mode \in BOOLEAN, q \in Vals :
        /\ m = "train_epoch" => e = 1 /\ ka
        /\ config = [task |-> "classification", key_metric |-> "loss",
                     save_all |-> FALSE, harden |-> FALSE, epochs |-> 1, lr |-> InitialLr, lr_step |-> <<1>>,
                     lr_factor |-> <<<<1, 2>>>>, test_only |-> "none"]
        /\ start_epoch = 0
        /\ pc = IF m = "train_epoch" THEN "train" ELSE IF e = 0 THEN "setup" ELSE "validate"
        /\ epoch = e
        /\ mark = model_mark(FALSE, e)
        /\ lr_step = 0
        /\ lr = InitialLr
        /\ param_groups = <<InitialLr>>
        /\ params = q
        /\ opt_steps = 0
        /\ training = mode
        /\ trainer_metrics = <<>>
        /\ evaluator_metrics = <<>>
        /\ best_value = InitialBest("loss")
        /\ best_metrics = <<>>
        /\ val_metrics = <<>>
        /\ train_metrics = <<>>
        /\ metrics_names = <<>>
        /\ save_dir = <<>>
        /\ pred_dir = <<>>
        /\ writes = [best |-> 0, dump |-> 0]
        /\ difficulty = [train |-> 0, val |-> 0]
        /\ exported = <<>>
        /\ records = <<>>
        /\ ret = [kind |-> "running", value |-> 0]
        /\ num_classes = c
        /\ runner_class = "BaseRunner"
        /\ method = m
        /\ at = "call"
        /\ epoch_num = e
        /\ dataloader = len
        /\ yielded = <<>>
        /\ mean_loss = <<0, 1>>
        /\ epoch_loss = 0
        /\ total_samples = 0
        /\ grad = NoGrad
        /\ stepped = <<>>
        /\ raised = "none"
        /\ keep_all = ka
        /\ per_batch = <<>>
        /\ result = "none"
        /\ trainer = runner_class
        /\ val_evaluator = runner_class
        /\ samples = <<>>
        /\ weibull_args = <<>>
        /\ openmax_scores = <<>>
        /\ weibull_model = <<>>
        /\ reg = NoReg
        /\ weight_decay = weight_decay_of(NoReg)
        /\ l2_reg = None
        /\ total_loss = <<0, 1>>
        /\ val_data = <<>>
        /\ passes = <<>>

\* BaseRunner.train_epoch with the first statement of an overriding method as body
BaseTrainEpoch_runs ==
    /\ runner_class = "BaseRunner"
    /\ method = "train_epoch"
    /\ at = "call"
    /\ training' = TRUE
    /\ at' = "for"
    /\ UNCHANGED <<caller, l2_reg, total_loss, per_batch, result, params, opt_steps, trainer_metrics,
                   evaluator_metrics, yielded, mean_loss, epoch_loss, total_samples,
                   grad, stepped, raised>>

\* running.py:247-248
BaseTrainEpoch ==
    /\ runner_class = "BaseRunner"
    /\ method = "train_epoch"
    /\ at = "call"
    /\ raised' = "NotImplementedError"
    /\ at' = "raised"
    /\ UNCHANGED <<caller, l2_reg, total_loss, per_batch, result, training, params, opt_steps,
                   trainer_metrics, evaluator_metrics, yielded, mean_loss, epoch_loss,
                   total_samples, grad, stepped>>

\* running.py:250-251
BaseEvaluate ==
    /\ runner_class = "BaseRunner"
    /\ method = "evaluate"
    /\ at = "call"
    /\ raised' = "NotImplementedError"
    /\ at' = "raised"
    /\ UNCHANGED <<caller, l2_reg, total_loss, per_batch, result, training, params, opt_steps,
                   trainer_metrics, evaluator_metrics, yielded, mean_loss, epoch_loss,
                   total_samples, grad, stepped>>

BaseNext ==
    \/ BaseTrainEpoch
    \/ BaseEvaluate

BaseSpec == BaseInit /\ [][BaseNext]_vars

(***************************************************************************)
(* running.py:561-651: the open-set methods of a SupervisedRunner.  The    *)
(* model returns, for a sample, its logits (one per known class) and its   *)
(* latent layers; the runner pools each latent channel to one number and   *)
(* concatenates logits and pooled channels into the sample's activation    *)
(* feature (running.py:573-581).  A sample is its target and its feature:  *)
(* num_classes logits followed by one pooled latent channel.  Class i of   *)
(* the code is position i + 1 of a sequence here.                          *)
(***************************************************************************)
MaxAct == 1             \* activations are 0..MaxAct
MaxSamples == 2         \* the loader yields at most MaxSamples samples

Acts == 0 .. MaxAct

Features(c) == [1 .. c + 1 -> Acts]

\* running.py:571: the logits are the first entries of the feature
logits(feature, c) == SubSeq(feature, 1, c)

\* torch.max(v, dim=1)[1]: the index of the first maximal value, counted from 0
torch_max(v) ==
    CHOOSE i \in 0 .. Len(v) - 1 :
        \A j \in 0 .. Len(v) - 1 :
            /\ v[j + 1] <= v[i + 1]
            /\ j < i => v[j + 1] < v[i + 1]

\* the predicted category taken over the logits alone
predicted_category_of_logits(feature, c) == torch_max(logits(feature, c))

\* running.py:583: the arg-max is taken over the whole concatenated feature
predicted_category(feature, c) == torch_max(feature)

\* running.py:583-588 and 590-591: the samples whose predicted category equals
\* their target, in loader order
correct_features(ss, c) ==
    SelectSeq(ss, LAMBDA x : predicted_category(x.feature, c) = x.target)

\* running.py:592: torch.unique gives the distinct tags in ascending order
unique_groups(correct, width) ==
    SelectSeq([i \in 1 .. width |-> i - 1],
              LAMBDA g : \E n \in 1 .. Len(correct) : correct[n].target = g)

\* running.py:595-596
grouped(correct, key) == SelectSeq(correct, LAMBDA x : x.target = key)

RECURSIVE ChannelSum(_, _)

ChannelSum(members, ch) ==
    IF members = <<>> THEN 0
    ELSE Head(members).feature[ch] + ChannelSum(Tail(members), ch)

\* running.py:603: torch.mean over the members, per channel, as a rational
mean(members) ==
    [ch \in 1 .. Len(members[1].feature) |-> <<ChannelSum(members, ch), Len(members)>>]

AbsDiff(a, b) == IF a >= b THEN a - b ELSE b - a

\* openmax.compute_channel_distances: for each sample, for each channel, a distance to
\* the MAV channel; here the absolute difference, as a rational
compute_channel_distances(mav, members) ==
    [n \in 1 .. Len(members) |->
        [ch \in 1 .. Len(mav) |->
            <<AbsDiff(members[n].feature[ch] * mav[ch][2], mav[ch][1]), mav[ch][2]>>]]

\* running.py:598-610: the three lists handed to openmax.weibull_tailfitting
weibull_lists(ss, c) ==
    LET correct == correct_features(ss, c)
        keys == unique_groups(correct, c + 1)
    IN  [MAV |-> [i \in 1 .. Len(keys) |-> mean(grouped(correct, keys[i]))],
         dists |-> [i \in 1 .. Len(keys) |->
                       compute_channel_distances(mean(grouped(correct, keys[i])),
                                                 grouped(correct, keys[i]))],
         categories |-> keys]

tailsize == 2           \* the tail size of the fitting, scaled to the loader sizes

\* a fitting that fits on however many distances a class has
weibull_tailfitting_silent(MAV, dists, categories) ==
    [i \in 1 .. Len(categories) |->
        [category |-> categories[i], failed |-> FALSE,
         fitted_on |-> IF Len(dists[i]) < tailsize THEN Len(dists[i]) ELSE tailsize]]

\* openmax.weibull_tailfitting: per class, the tailsize largest distances are fitted;
\* a class with fewer distances than tailsize is reported as failed and not fitted
weibull_tailfitting(MAV, dists, categories) ==
    [i \in 1 .. Len(categories) |->
        IF Len(dists[i]) < tailsize
        THEN [category |-> categories[i], failed |-> TRUE, fitted_on |-> 0]
        ELSE [category |-> categories[i], failed |-> FALSE, fitted_on |-> tailsize]]

NoLists == [MAV |-> <<>>, dists |-> <<>>, categories |-> <<>>]

NoScores == [num_classes |-> None, class_to_idx_dict |-> <<>>, unknown |-> None,
             openmax_probs |-> <<>>, softmax_probs |-> <<>>, labels |-> <<>>]

\* e^x up to the base: positive and increasing
Exp(x) == 2 ^ x

RECURSIVE SumExp(_)

SumExp(v) == IF v = <<>> THEN 0 ELSE Exp(Head(v)) + SumExp(Tail(v))

\* the softmax of a vector, as rationals
softmax(v) == [i \in 1 .. Len(v) |-> <<Exp(v[i]), SumExp(v)>>]

RECURSIVE Leaked(_, _)

Leaked(v, w) ==
    IF v = <<>> THEN 0 ELSE Head(v) * Head(w) + Leaked(Tail(v), Tail(w))

\* openmax.get_scores for one sample: the known-class logits are revised downward
\* by the weights w of the Weibull model (0: kept, 1: leaked whole), the leaked mass is
\* the unknown-class pseudo-logit in the last place, and the softmax is recomputed
openmax_prob(feature, n, w) ==
    softmax([i \in 1 .. n |-> feature[i] * (1 - w[i])] \o <<Leaked(logits(feature, n), w)>>)

\* openmax.get_scores for one sample: the softmax over the original logits
softmax_prob(feature, n) == softmax(logits(feature, n))

\* running.py:638: the class count is taken from the evaluated labels
num_classes_of(labels) == Cardinality({labels[i] : i \in 1 .. Len(labels)}) - 1

\* a call of make_weibull_from_trainsets on the trainer, whose targets are known
\* classes, or of openmax on an evaluator, whose targets may be of the unknown class
OpenSetInit ==
    \E m \in {"make_weibull_from_trainsets", "openmax"}, len \in 0 .. MaxSamples :
    \E ss \in [1 .. len -> [target : 0 .. 2, feature : Features(2)]] :
        /\ m = "make_weibull_from_trainsets" => \A n \in 1 .. len : ss[n].target < 2
        /\ config = [task |-> "classification", key_metric |-> "loss",
                     save_all |-> FALSE, harden |-> FALSE, epochs |-> 1, lr |-> InitialLr, lr_step |-> <<1>>,
                     lr_factor |-> <<<<1, 2>>>>, test_only |-> "none"]
        /\ start_epoch = 0
        /\ pc = "returned"
        /\ epoch = 1
        /\ mark = model_mark(FALSE, 1)
        /\ lr_step = 0
        /\ lr = InitialLr
        /\ param_groups = <<InitialLr>>
        /\ params = 0
        /\ opt_steps = 0
        /\ training = FALSE
        /\ trainer_metrics = <<>>
        /\ evaluator_metrics = <<>>
        /\ best_value = InitialBest("loss")
        /\ best_metrics = <<>>
        /\ val_metrics = <<>>
        /\ train_metrics = <<>>
        /\ metrics_names = <<>>
        /\ save_dir = <<>>
        /\ pred_dir = <<>>
        /\ writes = [best |-> 0, dump |-> 0]
        /\ difficulty = [train |-> 0, val |-> 0]
        /\ exported = <<>>
        /\ records = <<>>
        /\ ret = [kind |-> "none", value |-> 0]
        /\ num_classes = 2
        /\ runner_class = "SupervisedRunner"
        /\ method = m
        /\ at = "call"
        /\ epoch_num = None
        /\ dataloader = len
        /\ yielded = <<>>
        /\ mean_loss = <<0, 1>>
        /\ epoch_loss = 0
        /\ total_samples = 0
        /\ grad = NoGrad
        /\ stepped = <<>>
        /\ raised = "none"
        /\ keep_all = FALSE
        /\ per_batch = <<>>
        /\ result = "none"
        /\ trainer = runner_class
        /\ val_evaluator = runner_class
        /\ samples = ss
        /\ weibull_args = NoLists
        /\ openmax_scores = NoScores
        /\ weibull_model = <<>>
        /\ reg = NoReg
        /\ weight_decay = weight_decay_of(NoReg)
        /\ l2_reg = None
        /\ total_loss = <<0, 1>>
        /\ val_data = <<>>
        /\ passes = <<>>

\* running.py:561-611; torch.cat of an empty list (running.py:590) raises
MakeWeibullFromTrainsets ==
    /\ method = "make_weibull_from_trainsets"
    /\ at = "call"
    /\ IF samples = <<>>
       THEN /\ raised' = "RuntimeError"
            /\ at' = "raised"
            /\ UNCHANGED <<weibull_args, weibull_model, result>>
       ELSE /\ weibull_args' = weibull_lists(samples, num_classes)
            /\ weibull_model' = weibull_tailfitting(weibull_args'.MAV, weibull_args'.dists,
                                                    weibull_args'.categories)
            /\ result' = "weibull_model"
            /\ at' = "returned"
            /\ UNCHANGED raised
    /\ UNCHANGED <<config, start_epoch, pc, epoch, mark, lr_step, lr, param_groups,
                   best_value, best_metrics, val_metrics, train_metrics, metrics_names,
                   save_dir, pred_dir, writes, difficulty, exported, records, ret,
                   num_classes, evaluations, routing, runner_class, method, epoch_num, dataloader, keep_all, trainer,
                   val_evaluator, samples, openmax_scores, per_batch, training, params,
                   opt_steps, trainer_metrics, evaluator_metrics, yielded, mean_loss,
                   epoch_loss, total_samples, grad, stepped>>

\* running.py:613-651; torch.cat of an empty list (running.py:635) raises; the Weibull
\* model passed in shows as the revision weights it gives
Openmax ==
    /\ method = "openmax"
    /\ at = "call"
    /\ IF samples = <<>>
       THEN /\ raised' = "RuntimeError"
            /\ at' = "raised"
            /\ UNCHANGED <<openmax_scores, result>>
       ELSE \E n \in {num_classes_of([i \in 1 .. Len(samples) |-> samples[i].target])} :
            \E w \in [1 .. n -> {0, 1}] :
                /\ openmax_scores' =
                       [num_classes |-> n,
                        class_to_idx_dict |-> [i \in 1 .. n |-> i - 1],
                        unknown |-> n,
                        openmax_probs |-> [s \in 1 .. Len(samples) |->
                                              openmax_prob(samples[s].feature, n, w)],
                        softmax_probs |-> [s \in 1 .. Len(samples) |->
                                              softmax_prob(samples[s].feature, n)],
                        labels |-> [i \in 1 .. Len(samples) |-> samples[i].target]]
                /\ result' = "openmax_probs, softmax_probs, labels"
                /\ at' = "returned"
                /\ UNCHANGED raised
    /\ UNCHANGED <<config, start_epoch, pc, epoch, mark, lr_step, lr, param_groups,
                   best_value, best_metrics, val_metrics, train_metrics, metrics_names,
                   save_dir, pred_dir, writes, difficulty, exported, records, ret,
                   num_classes, evaluations, routing, runner_class, method, epoch_num, dataloader, keep_all, trainer,
                   val_evaluator, samples, weibull_args, weibull_model, per_batch, training,
                   params,
                   opt_steps, trainer_metrics, evaluator_metrics, yielded, mean_loss,
                   epoch_loss, total_samples, grad, stepped>>

OpenSetNext ==
    \/ MakeWeibullFromTrainsets
    \/ Openmax

OpenSetSpec == OpenSetInit /\ [][OpenSetNext]_vars

\* the calls of make_weibull_from_trainsets alone
WeibullInit == OpenSetInit /\ method = "make_weibull_from_trainsets"

WeibullSpec == WeibullInit /\ [][MakeWeibullFromTrainsets]_vars

(***************************************************************************)
(* Repeated evaluation.  The validation data is a sequence of batches in   *)
(* dataset order, each by its content; the loader decides the order in     *)
(* which a pass meets them, and the model in evaluation mode answers a     *)
(* batch by a function of its parameters and the batch alone.  Every       *)
(* finished pass of the evaluator is recorded in passes.                   *)
(***************************************************************************)
\* a loader that shuffles whatever it loads
shuffle_all(loader) == TRUE

\* main.py:216-230: shuffle=False for val_loader (218), shuffle=True for train_loader (227)
shuffle(loader) == loader = "train_loader"

\* the index orders in which a DataLoader over n batches can yield them
Orders(loader, n) ==
    IF shuffle(loader) THEN Permutations(1 .. n) ELSE {[i \in 1 .. n |-> i]}

\* models/PSEncoder.py:30: with nn.Dropout(0.5) active (training mode) the output for
\* a batch is any value; in evaluation mode it is fixed by the parameters and the batch
forward(q, x, mode) ==
    IF mode THEN Vals ELSE {(q + x) % (MaxVal + 1)}

RECURSIVE Total(_)
\* running.py:519: epoch_loss += the loss of each batch, in the order met
Total(seq) ==
    IF seq = <<>> THEN 0 ELSE seq[1] + Total(Tail(seq))

\* running.py:468-559: one whole evaluate(epoch_num, keep_all=True) of val_evaluator
EvaluatePass ==
    /\ Len(passes) < MaxEpochs
    /\ training' = FALSE
    /\ \E e \in {None, 0}, order \in Orders("val_loader", Len(val_data)) :
       \E predictions \in [1 .. Len(val_data) -> Vals] :
           /\ \A i \in 1 .. Len(val_data) :
                  predictions[i] \in forward(params, val_data[order[i]], training')
           /\ epoch_num' = e
           /\ yielded' = order
           /\ epoch_loss' = Total(predictions)
           /\ total_samples' = Len(val_data)
           /\ per_batch' = [predictions |-> predictions, IDs |-> order]
           /\ evaluator_metrics' =
                  evaluate_metrics(evaluator_metrics, e,
                                   [loss |-> <<epoch_loss', total_samples'>>,
                                    accuracy |->
                                        Cardinality({i \in 1 .. Len(val_data) :
                                                         predictions[i] = MaxVal})],
                                   num_classes)
           /\ passes' = Append(passes, [params |-> params, opt_steps |-> opt_steps,
                                        epoch_num |-> e, order |-> order,
                                        metrics |-> evaluator_metrics',
                                        per_batch |-> per_batch'])
    /\ keep_all' = TRUE
    /\ result' = "metrics, per_batch"
    /\ UNCHANGED <<val_data, routing, openset, runners, config, start_epoch, pc, epoch,
                   mark, lr_step, lr, param_groups, params, opt_steps, trainer_metrics,
                   best_value, best_metrics, val_metrics, train_metrics, metrics_names,
                   save_dir, pred_dir, writes, difficulty, exported, records, ret,
                   num_classes, runner_class, method, at, dataloader, mean_loss, grad,
                   stepped, raised>>

\* running.py:392-466: one whole train_epoch of the trainer on the shared model, an
\* optimizer step per batch of the training loader
TrainPass ==
    /\ epoch < MaxEpochs
    /\ epoch' = epoch + 1
    /\ training' = TRUE
    /\ \E q \in Vals :
           /\ params' = q
           /\ trainer_metrics' =
                  train_epoch_metrics(trainer_metrics, epoch', Outcome(q), num_classes)
    /\ opt_steps' = opt_steps + dataloader
    /\ UNCHANGED <<evaluations, routing, openset, runners, config, start_epoch, pc, mark,
                   lr_step, lr, param_groups, evaluator_metrics, best_value,
                   best_metrics, val_metrics, train_metrics, metrics_names, save_dir,
                   pred_dir, writes, difficulty, exported, records, ret, num_classes,
                   runner_class, method, at, epoch_num, dataloader, yielded, mean_loss,
                   epoch_loss, total_samples, grad, stepped, raised, keep_all, per_batch,
                   result>>

\* a built pipeline of a classification task over each validation set of 1 to
\* NumBatches batches
ReEvalInit ==
    \E len \in 1 .. NumBatches, q \in Vals, c \in Classes :
    \E data \in [1 .. len -> Vals] :
        /\ config = [task |-> "classification", key_metric |-> "loss",
                     save_all |-> FALSE, harden |-> FALSE, epochs |-> MaxEpochs,
                     lr |-> InitialLr, lr_step |-> <<1>>,
                     lr_factor |-> <<<<1, 2>>>>, test_only |-> "none"]
        /\ start_epoch = 0
        /\ pc = "eval0"
        /\ epoch = 0
        /\ mark = model_mark(FALSE, 0)
        /\ lr_step = 0
        /\ lr = InitialLr
        /\ param_groups = <<InitialLr>>
        /\ params = q
        /\ opt_steps = 0
        /\ training = TRUE
        /\ trainer_metrics = <<>>
        /\ evaluator_metrics = <<>>
        /\ best_value = InitialBest("loss")
        /\ best_metrics = <<>>
        /\ val_metrics = <<>>
        /\ train_metrics = <<>>
        /\ metrics_names = <<>>
        /\ save_dir = <<>>
        /\ pred_dir = <<>>
        /\ writes = [best |-> 0, dump |-> 0]
        /\ difficulty = [train |-> 0, val |-> 0]
        /\ exported = <<>>
        /\ records = <<>>
        /\ ret = [kind |-> "none", value |-> 0]
        /\ num_classes = c
        /\ runner_class = "SupervisedRunner"
        /\ method = "none"
        /\ at = "call"
        /\ epoch_num = None
        /\ dataloader = 1
        /\ yielded = <<>>
        /\ mean_loss = <<0, 1>>
        /\ epoch_loss = 0
        /\ total_samples = 0
        /\ grad = NoGrad
        /\ stepped = <<>>
        /\ raised = "none"
        /\ keep_all = FALSE
        /\ per_batch = <<>>
        /\ result = "none"
        /\ trainer = runner_class
        /\ val_evaluator = runner_class
        /\ samples = <<>>
        /\ weibull_args = NoLists
        /\ openmax_scores = NoScores
        /\ weibull_model = <<>>
        /\ reg = NoReg
        /\ weight_decay = weight_decay_of(NoReg)
        /\ l2_reg = None
        /\ total_loss = <<0, 1>>
        /\ val_data = data
        /\ passes = <<>>

ReEvalNext ==
    \/ EvaluatePass
    \/ TrainPass

ReEvalSpec == ReEvalInit /\ [][ReEvalNext]_vars

(***************************************************************************)
(* Properties                                                              *)
(***************************************************************************)
\* a step of main that is one call of validate (main.py:301 or main.py:337)
ValidateStep == pc \in {"setup", "validate"} /\ pc' \in {"loop", "save"}

\* the epoch tag validate is called with in the current position of main
ValidateEpoch == IF pc = "setup" THEN 0 ELSE epoch

BestFile == FileName("best", 0)

\* the best tracking state is replaced by the result of this validate call
BestReplaced ==
    /\ best_value' = Get(evaluator_metrics', config.key_metric)
    /\ best_metrics' = evaluator_metrics'
    /\ writes'.best = writes.best + 1

\* the best tracking state is the one passed in
BestKept ==
    /\ best_value' = best_value
    /\ best_metrics' = best_metrics
    /\ writes'.best = writes.best
    /\ (BestFile \in DOMAIN save_dir') = (BestFile \in DOMAIN save_dir)
    /\ BestFile \in DOMAIN save_dir => save_dir'[BestFile] = save_dir[BestFile]

\* C1: with a lower-is-better key metric (loss), a validate call replaces the best
\* tracking state exactly when the new key-metric value is strictly smaller than the
\* best_value passed in; an equal or greater value leaves it as it was.
C1_LossReplacedIffStrictlySmaller ==
    [][(ValidateStep /\ config.key_metric \in NEG_METRICS) =>
          IF Get(evaluator_metrics', config.key_metric) < best_value
          THEN BestReplaced
          ELSE BestKept /\ ~BestReplaced]_vars

\* a loss equal to the best value was validated and the best state is an older one
C1_Witness ==
    /\ config.key_metric = "loss"
    /\ pc = "save"
    /\ Get(evaluator_metrics, "loss") = best_value
    /\ Get(best_metrics, "epoch") < Get(evaluator_metrics, "epoch")

\* C2: with a key metric that is not lower-is-better, a validate call replaces the
\* best tracking state exactly when the new key-metric value is strictly larger than
\* the best_value passed in; an equal or smaller value leaves it as it was.
C2_OtherReplacedIffStrictlyLarger ==
    [][(ValidateStep /\ config.key_metric \notin NEG_METRICS) =>
          IF Get(evaluator_metrics', config.key_metric) > best_value
          THEN BestReplaced
          ELSE BestKept /\ ~BestReplaced]_vars

\* an accuracy equal to the best value was validated and the best state is an older one
C2_Witness ==
    /\ config.key_metric = "accuracy"
    /\ pc = "save"
    /\ Get(evaluator_metrics, "accuracy") = best_value
    /\ Get(best_metrics, "epoch") < Get(evaluator_metrics, "epoch")

\* the column of the key metric in the rows of val_metrics
KeyColumn == CHOOSE i \in 1 .. Len(metrics_names) : metrics_names[i] = config.key_metric

\* the key-metric values of all validate calls so far
SeenValues == {val_metrics[i][KeyColumn] : i \in 1 .. Len(val_metrics)}

Min(S) == CHOOSE x \in S : \A y \in S : x <= y

Max(S) == CHOOSE x \in S : \A y \in S : x >= y

\* number of epochs the loop of a run trains: max(0, epochs - start_epoch)
LoopEpochs ==
    IF config.epochs > start_epoch THEN config.epochs - start_epoch ELSE 0

\* main has returned from a training run
Finished == pc = "returned" /\ ret.kind = "value"

\* C3: with best_metrics / best_value threaded from call to call, best_value is after
\* every validate call the extremum (minimum for loss, maximum otherwise) of the initial
\* sentinel and all key-metric values seen so far, and main returns that value, taken
\* over the epoch-0 baseline and the validation of every epoch.
C3_BestValueIsExtremum ==
    /\ best_value = IF config.key_metric = "loss"
                    THEN Min({BestSentinel} \cup SeenValues)
                    ELSE Max({-BestSentinel} \cup SeenValues)
    /\ Finished => /\ ret.value = best_value
                   /\ Len(val_metrics) = LoopEpochs + 1

\* main returned a best value that neither the first nor the last validation gave
C3_Witness ==
    /\ Finished
    /\ Len(val_metrics) = 3
    /\ ret.value = val_metrics[2][KeyColumn]
    /\ ret.value # val_metrics[1][KeyColumn]
    /\ ret.value # val_metrics[3][KeyColumn]

\* the result of this validate call is strictly better than the best value passed in
Improves ==
    IF config.key_metric = "loss"
    THEN Get(evaluator_metrics', "loss") < best_value
    ELSE Get(evaluator_metrics', config.key_metric) > best_value

\* C4: a validate call that finds an improvement writes the best checkpoint with the
\* model and the current epoch, replaces best_metrics by the current aggregate metrics
\* and writes the prediction dump; a call that finds none writes neither file and
\* returns the best_metrics and best_value it was given.
C4_ImprovementEffects ==
    [][ValidateStep =>
          IF Improves
          THEN /\ BestFile \in DOMAIN save_dir'
               /\ save_dir'[BestFile].epoch = ValidateEpoch
               /\ save_dir'[BestFile].state_dict = params
               /\ best_metrics' = evaluator_metrics'
               /\ pred_dir' = <<[epoch |-> ValidateEpoch, predictions |-> params]>>
               /\ writes' = [best |-> writes.best + 1, dump |-> writes.dump + 1]
          ELSE /\ writes' = writes
               /\ pred_dir' = pred_dir
               /\ save_dir' = save_dir
               /\ best_metrics' = best_metrics
               /\ best_value' = best_value]_vars

\* a validate call has found no improvement after an earlier one had written the files
C4_Witness ==
    /\ pc = "save"
    /\ writes = [best |-> 1, dump |-> 1]
    /\ pred_dir[1].epoch < epoch
    /\ save_dir[BestFile].epoch < epoch
    /\ Get(best_metrics, "epoch") < epoch
    /\ Get(evaluator_metrics, config.key_metric) # best_value

\* rows of val_metrics tagged epoch 0 (the epoch is the first column)
BaselineRows(rows) == {i \in 1 .. Len(rows) : rows[i][1] = 0}

\* C5: a training run executes exactly one validation pass tagged epoch 0, before the
\* first training epoch and so before any optimizer step, and its metric values are
\* the first row of the validation history.
C5_BaselineFirst ==
    [][config.test_only # "testset" =>
          /\ pc = "setup" => /\ opt_steps = 0
                             /\ train_metrics = <<>>
                             /\ val_metrics = <<>>
                             /\ pc' = "loop"
                             /\ opt_steps' = 0
                             /\ Len(val_metrics') = 1
                             /\ val_metrics'[1] = Values(evaluator_metrics')
                             /\ Get(evaluator_metrics', "epoch") = 0
          /\ pc # "setup" => /\ BaselineRows(val_metrics) = {1}
                             /\ BaselineRows(val_metrics') = {1}
                             /\ val_metrics'[1] = val_metrics[1]]_vars

\* the first training epoch has run and the history holds the baseline row only
C5_Witness ==
    /\ pc = "validate"
    /\ opt_steps > 0
    /\ Len(train_metrics) = 1
    /\ Len(val_metrics) = 1
    /\ val_metrics[1][1] = 0

\* the rolling checkpoint of main.py:360 is written in this step
RollingSaved ==
    /\ mark \in DOMAIN save_dir'
    /\ mark \in DOMAIN save_dir => save_dir'[mark] # save_dir[mark]

\* C6: in every epoch the stages run in the order train_epoch, validate, rolling
\* checkpoint save, learning-rate step (if due), curriculum step (if due); no stage of
\* the next epoch starts before the last stage of this one is over, and the metrics are
\* exported only after the last epoch.
C6_StageOrder ==
    [][/\ pc = "loop" => pc' \in {"train", "export"}
       /\ pc = "train" => pc' = "validate"
       /\ pc = "validate" => pc' = "save"
       /\ pc = "save" => pc' = "lr"
       /\ pc = "lr" => pc' = "harden"
       /\ pc = "harden" => pc' = "loop"
       /\ epoch' # epoch => pc = "loop" /\ pc' = "train" /\ epoch' = epoch + 1
       /\ train_metrics' # train_metrics =>
             /\ pc = "train"
             /\ Len(val_metrics) = Len(train_metrics) + 1
             /\ train_metrics'[Len(train_metrics')][1] = epoch
       /\ (val_metrics' # val_metrics /\ pc # "setup") =>
             /\ pc = "validate"
             /\ Len(train_metrics) = Len(val_metrics)
             /\ train_metrics[Len(train_metrics)][1] = epoch
             /\ val_metrics'[Len(val_metrics')][1] = epoch
       /\ RollingSaved =>
             /\ pc = "save"
             /\ val_metrics[Len(val_metrics)][1] = epoch
             /\ save_dir'[mark].epoch = epoch
       /\ (lr' # lr \/ lr_step' # lr_step \/ param_groups' # param_groups) =>
             /\ pc = "lr"
             /\ save_dir[mark].epoch = epoch
       /\ difficulty' # difficulty => pc = "harden"
       /\ (exported' # exported \/ records' # records) =>
             /\ pc = "export"
             /\ pc' = "returned"
             /\ Len(train_metrics) = LoopEpochs
             /\ Len(val_metrics) = LoopEpochs + 1]_vars

\* an epoch in which the learning-rate step and the curriculum step were both due is
\* over
C6_Witness ==
    /\ pc = "loop"
    /\ epoch = 100
    /\ difficulty.train = 1
    /\ lr # config.lr
    /\ save_dir[mark].epoch = epoch

\* epochs of the loop that are over
Completed == epoch - start_epoch

\* main is between two epochs of the loop, or past the loop
BetweenEpochs == pc \in {"loop", "export"} \/ Finished

\* C7: every epoch of the loop runs one training pass and one validation pass and
\* appends one row to each history: after k completed epochs the training history has
\* k rows and the validation history k + 1, the baseline and one row per epoch.
C7_HistoryRows ==
    BetweenEpochs =>
        /\ Len(train_metrics) = Completed
        /\ Len(val_metrics) = Completed + 1
        /\ \A i \in 1 .. Completed :
              /\ train_metrics[i][1] = start_epoch + i
              /\ val_metrics[i + 1][1] = start_epoch + i
        /\ opt_steps = Completed * NumBatches

\* two epochs of a resumed run are over
C7_Witness ==
    /\ pc = "loop"
    /\ start_epoch > 0
    /\ Completed = 2
    /\ Len(train_metrics) = 2
    /\ Len(val_metrics) = 3

\* the rolling checkpoint of the current epoch has been written
EpochSaved == pc \in {"lr", "harden"} \/ (BetweenEpochs /\ Completed > 0)

\* C8: after every completed epoch e, without save_all the one rolling checkpoint
\* 'last' holds epoch e; with save_all there is a checkpoint of its own for every
\* epoch from the first trained one to e, each still holding its epoch.
C8_RollingCheckpoints ==
    EpochSaved =>
        IF config.save_all
        THEN \A e \in start_epoch + 1 .. epoch :
                /\ FileName("epoch", e) \in DOMAIN save_dir
                /\ save_dir[FileName("epoch", e)].epoch = e
                /\ save_dir[FileName("epoch", e)].optimizer # <<>>
        ELSE /\ FileName("last", 0) \in DOMAIN save_dir
             /\ save_dir[FileName("last", 0)].epoch = epoch
             /\ save_dir[FileName("last", 0)].state_dict = params

\* with save_all the checkpoints of two epochs exist side by side
C8_Witness ==
    /\ config.save_all
    /\ pc = "loop"
    /\ Completed = 2
    /\ save_dir[FileName("epoch", epoch - 1)].epoch = epoch - 1
    /\ save_dir[FileName("epoch", epoch)].epoch = epoch

RECURSIVE ScheduledLr(_, _, _)
\* rate times the factors of the milestones i, i + 1, ... that are <= e
ScheduledLr(rate, i, e) ==
    IF i > Len(config.lr_step)
    THEN rate
    ELSE ScheduledLr(IF config.lr_step[i] <= e
                     THEN RMul(rate, config.lr_factor[i])
                     ELSE rate,
                     i + 1, e)

StrictlyIncreasing(seq) == \A i \in 1 .. Len(seq) - 1 : seq[i] < seq[i + 1]

\* the last epoch whose learning-rate step is over
LastScheduled ==
    IF pc \in {"train", "validate", "save", "lr"} THEN epoch - 1 ELSE epoch

\* C9: in a fresh run with strictly increasing milestone epochs the learning rate in
\* force after epoch e is the initial rate times the factors of exactly the milestones
\* <= e, each applied once; it does not change after the last milestone.
C9_LrIsProductOfPassedFactors ==
    (start_epoch = 0 /\ StrictlyIncreasing(config.lr_step) /\ pc # "setup") =>
        /\ REq(lr, ScheduledLr(config.lr, 1, LastScheduled))
        /\ \A g \in DOMAIN param_groups :
              REq(param_groups[g], ScheduledLr(config.lr, 1, LastScheduled))

\* two milestones with different factors have both been passed
C9_Witness ==
    /\ start_epoch = 0
    /\ config.lr_step = <<1, 2>>
    /\ config.lr_factor = <<<<1, 2>>, <<1, 10>>>>
    /\ pc = "loop"
    /\ epoch = 2
    /\ REq(lr, <<1, 20>>)
    /\ REq(param_groups[1], <<1, 20>>)

\* C10: in every epoch of every run the milestone pointer is an index of both lr_step
\* and lr_factor, so the scheduling step never indexes out of range, also in the epochs
\* after the last milestone.
C10_PointerInRange ==
    /\ lr_step >= 0
    /\ lr_step <= Len(config.lr_step) - 1
    /\ lr_step <= Len(config.lr_factor) - 1
    /\ pc = "lr" => ENABLED LrScheduling

\* the scheduling step of an epoch after the last milestone, which was applied
C10_Witness ==
    /\ pc = "lr"
    /\ lr_step = Len(config.lr_step) - 1
    /\ epoch > config.lr_step[Len(config.lr_step)]
    /\ lr # config.lr
    /\ Len(config.lr_step) = 2

\* a learning-rate milestone is due in the scheduling step of the current epoch
MilestoneDue == pc = "lr" /\ epoch = config.lr_step[lr_step + 1]

\* the checkpoint main.py:364 tags with the milestone epoch
MilestoneFile == FileName("epoch", epoch)

\* C11: when the loop reaches a learning-rate milestone epoch, the checkpoint tagged
\* with that epoch is written before the rate is changed: the optimizer state in it
\* carries the old rate, the training of that epoch is over by then, and the new rate
\* is the one of the optimizer in the training of the next epoch.
C11_MilestoneCheckpointBeforeChange ==
    [][/\ MilestoneDue =>
             /\ MilestoneFile \in DOMAIN save_dir'
             /\ save_dir'[MilestoneFile].epoch = epoch
             /\ save_dir'[MilestoneFile].state_dict = params
             /\ save_dir'[MilestoneFile].optimizer = param_groups
             /\ \A g \in DOMAIN param_groups :
                   /\ ~REq(param_groups'[g], param_groups[g])
                   /\ param_groups'[g] = RMul(lr, config.lr_factor[lr_step + 1])
             /\ train_metrics[Len(train_metrics)][1] = epoch
             /\ opt_steps' = opt_steps
       /\ param_groups' # param_groups => MilestoneDue
       /\ opt_steps' # opt_steps =>
             /\ pc = "train"
             /\ param_groups' = param_groups
             /\ \A g \in DOMAIN param_groups : param_groups[g] = lr]_vars

\* without save_all, the checkpoint of a milestone epoch holds another rate than the
\* optimizer has after the scheduling step
C11_Witness ==
    /\ ~config.save_all
    /\ pc = "harden"
    /\ MilestoneFile \in DOMAIN save_dir
    /\ save_dir[MilestoneFile].epoch = epoch
    /\ ~REq(save_dir[MilestoneFile].optimizer[1], param_groups[1])

\* C12: after every learning-rate milestone update every parameter group of the
\* optimizer has the same rate, the current lr of the orchestrator; no group keeps the
\* old rate.
C12_AllGroupsHaveLr ==
    [][lr' # lr =>
          /\ MilestoneDue
          /\ DOMAIN param_groups' = DOMAIN param_groups
          /\ \A g \in DOMAIN param_groups' :
                /\ param_groups'[g] = lr'
                /\ ~REq(param_groups'[g], lr)]_vars

\* the second milestone update of a run has been applied to the optimizer
C12_Witness ==
    /\ pc = "harden"
    /\ lr_step = 1
    /\ epoch = config.lr_step[2]
    /\ config.lr_step[1] < config.lr_step[2]
    /\ \A g \in DOMAIN param_groups : param_groups[g] = lr
    /\ REq(lr, RMul(RMul(config.lr, config.lr_factor[1]), config.lr_factor[2]))

\* C13: the curriculum step fires exactly at the epochs 100, 140, 160, 220, 280, 340
\* and only with harden enabled; when it fires, the training and the validation data
\* source are each advanced once, so both have had the same number of updates in every
\* state; at no other epoch and never with harden disabled is a source advanced.
C13_CurriculumEpochs ==
    [][/\ difficulty' # difficulty <=>
             /\ pc = "harden"
             /\ config.harden
             /\ epoch \in {100, 140, 160, 220, 280, 340}
       /\ difficulty' # difficulty =>
             difficulty' = [train |-> difficulty.train + 1, val |-> difficulty.val + 1]
       /\ difficulty.train = difficulty.val
       /\ difficulty'.train = difficulty'.val
       /\ ~config.harden => difficulty' = [train |-> 0, val |-> 0]]_vars

\* the step fired at epoch 100 and did not fire at epoch 101
C13_Witness ==
    /\ config.harden
    /\ pc = "loop"
    /\ epoch = 101
    /\ difficulty = [train |-> 1, val |-> 1]

\* C14: a training run terminates: from start_epoch s with E configured epochs it runs
\* exactly max(0, E - s) training epochs, the epochs s + 1 .. E once each in increasing
\* order, then exports the metric histories and appends exactly one summary record to
\* the cross-experiment log; no record is appended before the last epoch is over.
C14_Terminates ==
    /\ <>(pc = "returned")
    /\ [][/\ epoch' # epoch => epoch' = epoch + 1 /\ epoch' <= config.epochs
          /\ train_metrics' # train_metrics =>
                /\ Len(train_metrics') = epoch - start_epoch
                /\ train_metrics'[Len(train_metrics')][1] = epoch
          /\ ~Finished =>
                /\ records = <<>>
                /\ exported = <<>>
          /\ (Finished' /\ ~Finished) =>
                /\ Len(train_metrics) = LoopEpochs
                /\ \A i \in 1 .. LoopEpochs : train_metrics[i][1] = start_epoch + i
                /\ opt_steps = LoopEpochs * NumBatches
                /\ Len(exported') = 1
                /\ Len(records') = 1]_vars

\* a resumed run has trained its two epochs and has written its one record
C14_Witness ==
    /\ Finished
    /\ start_epoch > 0
    /\ config.epochs = start_epoch + 2
    /\ Len(train_metrics) = 2
    /\ Len(records) = 1
    /\ train_metrics[2][1] = config.epochs

\* the metric names the validation of epoch 0 records (main.py:303)
BaselineNames == Keys(evaluate_metrics(<<>>, 0, Outcome(0), num_classes))

\* every row of the table has one value for each column of the header
RowsFit(rows, header) == \A i \in 1 .. Len(rows) : Len(rows[i]) = Len(header)

\* C15: at export the training table and the validation table are written with one
\* shared header, the metric names recorded by the validation of epoch 0, and every row
\* of either table has exactly one value per header column, also for a 2-class problem,
\* where evaluation adds AUROC and AUPRC.
C15_SharedHeaderFitsRows ==
    exported # <<>> =>
        /\ exported[1].header = BaselineNames
        /\ exported[1].val = val_metrics
        /\ exported[1].train = train_metrics
        /\ RowsFit(exported[1].val, exported[1].header)
        /\ RowsFit(exported[1].train, exported[1].header)

RECURSIVE SumLoss(_)
\* sum of the batch total losses
SumLoss(bs) == IF bs = <<>> THEN 0 ELSE Head(bs).batch_loss + SumLoss(Tail(bs))

RECURSIVE SumCount(_)
\* sum of the batch counts
SumCount(bs) == IF bs = <<>> THEN 0 ELSE Head(bs).n + SumCount(Tail(bs))

RECURSIVE SumMeans(_)
\* sum of the per-batch means
SumMeans(bs) ==
    IF bs = <<>> THEN <<0, 1>>
    ELSE RAdd(<<Head(bs).batch_loss, Head(bs).n>>, SumMeans(Tail(bs)))

WeightedMean(bs) == <<SumLoss(bs), SumCount(bs)>>

MeanOfMeans(bs) == <<SumMeans(bs)[1], SumMeans(bs)[2] * Len(bs)>>

EqualCounts(bs) == \A i, j \in 1 .. Len(bs) : bs[i].n = bs[j].n

\* every batch has a mean
AllActive(bs) == \A i \in 1 .. Len(bs) : bs[i].n > 0

BatchMean(b) == <<b.batch_loss, b.n>>

\* the rolling metrics map of the runner the call runs on
self_metrics == IF method = "train_epoch" THEN trainer_metrics ELSE evaluator_metrics

\* the call has returned its metrics
Returned == at = "returned"

\* C16 as stated: the epoch loss of train_epoch and evaluate, of both runner variants,
\* is the sum of the batch total losses over the sum of the batch counts, and this
\* differs from the mean of the per-batch means whenever the batch counts are unequal.
C16_WeightedDiffersWheneverUnequal ==
    (Returned /\ AllActive(yielded)) =>
        /\ REq(Get(self_metrics, "loss"), WeightedMean(yielded))
        /\ ~EqualCounts(yielded) =>
              ~REq(WeightedMean(yielded), MeanOfMeans(yielded))

\* C16, amended: the epoch loss of train_epoch and evaluate, of both runner variants,
\* is the sum of the batch total losses over the sum of the batch counts, not the mean
\* of the per-batch means; the two agree when all batch counts are equal and can differ
\* when they are not: for two batches they differ exactly when both the counts and the
\* batch means are unequal.
C16_WeightedLoss ==
    Returned =>
        /\ Get(self_metrics, "loss") = <<SumLoss(yielded), SumCount(yielded)>>
        /\ Get(self_metrics, "epoch") = epoch_num
        /\ (AllActive(yielded) /\ EqualCounts(yielded)) =>
              REq(WeightedMean(yielded), MeanOfMeans(yielded))
        /\ (AllActive(yielded) /\ Len(yielded) = 2) =>
              (~REq(WeightedMean(yielded), MeanOfMeans(yielded))
                 <=> /\ yielded[1].n # yielded[2].n
                     /\ ~REq(BatchMean(yielded[1]), BatchMean(yielded[2])))

\* two batches of 1 and 2 samples with total losses 1 and 0: the loss returned is 1/3,
\* the mean of the batch means is 1/2
C16_Witness ==
    /\ Returned
    /\ yielded = <<[n |-> 1, batch_loss |-> 1], [n |-> 2, batch_loss |-> 0]>>
    /\ REq(Get(self_metrics, "loss"), <<1, 3>>)
    /\ REq(MeanOfMeans(yielded), <<1, 2>>)

\* C17: a batch without active elements or samples, and a stream without any active
\* element, is left out of the mean: neither the per-batch mean nor the epoch mean of
\* train_epoch / evaluate divides by zero.
C17_NoDivisionByZero ==
    /\ raised # "ZeroDivisionError"
    /\ mean_loss[2] # 0

\* the batches of the current pass whose iteration is over
Processed ==
    IF at \in {"call", "accumulate", "for", "mean", "returned", "raised"}
    THEN Len(yielded)
    ELSE Len(yielded) - 1

\* C18: train_epoch takes every batch of the stream once, in the order yielded, and
\* for each batch runs zero_grad, backward, clip_grad_norm_ to 4.0 and optimizer.step
\* once each in this order; the optimizer steps of one train_epoch are as many as the
\* batches yielded.
C18_OneStepPerBatch ==
    method = "train_epoch" =>
        /\ Len(yielded) <= dataloader
        /\ Len(stepped) = Processed
        /\ opt_steps = Len(stepped)
        /\ \A i \in 1 .. Len(stepped) : stepped[i].grad = [of |-> {i}, max_norm |-> 4]
        /\ at = "backward" => grad = [of |-> {}, max_norm |-> 0]
        /\ at = "clip" => grad = [of |-> {Len(yielded)}, max_norm |-> 0]
        /\ at = "step" => grad = [of |-> {Len(yielded)}, max_norm |-> 4]
        /\ at \in {"mean", "returned", "raised"} =>
              /\ Len(yielded) = dataloader
              /\ opt_steps = dataloader

\* a train_epoch over two batches has returned
C18_Witness ==
    /\ method = "train_epoch"
    /\ Returned
    /\ dataloader = 2
    /\ Len(yielded) = 2
    /\ opt_steps = 2
    /\ stepped[2].grad.of = {2}

\* C19: evaluate never invokes the optimizer: over an evaluation pass the optimizer
\* state, the learning rate and the model parameters are unchanged; of the state
\* outside the call only the mode flag of the model and the rolling metrics map of
\* the evaluator change.
C19_EvaluateLeavesOptimizer ==
    [][method = "evaluate" =>
          /\ opt_steps' = opt_steps
          /\ params' = params
          /\ param_groups' = param_groups
          /\ lr' = lr
          /\ grad' = grad
          /\ stepped' = stepped
          /\ trainer_metrics' = trainer_metrics
          /\ caller' = caller
          /\ training' # training => at = "call" /\ ~training'
          /\ evaluator_metrics' # evaluator_metrics => at = "mean" /\ at' = "returned"]_vars

\* an evaluation pass over two batches has returned and has replaced the metrics of
\* an earlier pass
C19_Witness ==
    /\ method = "evaluate"
    /\ Returned
    /\ Len(yielded) = 2
    /\ ~training
    /\ opt_steps = 0
    /\ evaluator_metrics # <<>>
    /\ Get(evaluator_metrics, "epoch") = 1
    /\ ~REq(Get(evaluator_metrics, "loss"), <<1, 1>>)

\* C20: the trainer and the evaluator share one model with one mode flag; one pass is
\* in progress at a time, every optimizer step is taken with the model in train mode
\* and every forward pass of an evaluation with the model in eval mode.
C20_ModeMatchesPass ==
    /\ method \in {"train_epoch", "evaluate"}
    /\ \A i \in 1 .. Len(stepped) : stepped[i].training
    /\ stepped # <<>> => method = "train_epoch"
    /\ at \in {"zero_grad", "backward", "clip", "step"} => method = "train_epoch"
    /\ (method = "train_epoch" /\ at # "call") => training
    /\ (method = "evaluate" /\ at # "call") => ~training

\* an evaluation entered with the model in train mode is past its second forward pass
C20_Witness ==
    /\ method = "evaluate"
    /\ at = "accumulate"
    /\ Len(yielded) = 2
    /\ ~training
    /\ stepped = <<>>

\* how often key is among the keys ks
Occurs(ks, key) == Cardinality({i \in 1 .. Len(ks) : ks[i] = key})

\* C21: the map a call of train_epoch or evaluate returns has 'epoch' and 'loss' as
\* its first two keys; for a supervised runner it also has 'accuracy', 'precision',
\* 'recall', 'f1' and, for each of precision / recall / f1, exactly one key
\* '<metric>-cls-<i>' per class; the key sequence a runner returns is the same in
\* every call.
C21_MetricKeys ==
    [][at' = "returned" =>
          /\ Len(self_metrics') >= 2
          /\ Keys(self_metrics')[1] = "epoch"
          /\ Keys(self_metrics')[2] = "loss"
          /\ \A i, j \in 1 .. Len(self_metrics') :
                self_metrics'[i].k = self_metrics'[j].k => i = j
          /\ runner_class = "UnsupervisedRunner" => Len(self_metrics') = 2
          /\ runner_class = "SupervisedRunner" =>
                /\ \A key \in {"accuracy", "precision", "recall", "f1"} :
                      Occurs(Keys(self_metrics'), key) = 1
                /\ \A name \in {"precision", "recall", "f1"} : \A i \in 1 .. Len(ClassNo) :
                      Occurs(Keys(self_metrics'), name \o "-cls-" \o ClassNo[i])
                          = IF i <= num_classes THEN 1 ELSE 0
          /\ self_metrics # <<>> => Keys(self_metrics') = Keys(self_metrics)]_vars

\* a supervised runner of a 3-class model returns its 15 keys
C21_Witness ==
    /\ Returned
    /\ runner_class = "SupervisedRunner"
    /\ num_classes = 3
    /\ Len(self_metrics) = 15
    /\ self_metrics[7].k = "precision-cls-1"
    /\ self_metrics[15].k = "f1-cls-3"

\* the entries of the batches consumed, in the order consumed
OnePerBatch == [i \in 1 .. Len(yielded) |-> i]

\* C22: evaluate called with keep_all returns the metrics together with a per-batch
\* record in which each of predictions, targets, target_masks and IDs holds one entry
\* per batch consumed, in the order consumed; without keep_all it returns the metrics
\* map alone.
C22_KeepAllCollectsPerBatch ==
    (method = "evaluate" /\ Returned) =>
        IF keep_all
        THEN /\ result = "metrics, per_batch"
             /\ \A key \in {"predictions", "targets", "target_masks", "IDs"} :
                   /\ Has(per_batch, key)
                   /\ Get(per_batch, key) = OnePerBatch
        ELSE result = "metrics"

\* C23: train_epoch and evaluate of the base runner always fail with a not-implemented
\* error and change no state of the runner, the model or the optimizer.
C23_BaseRunnerRaises ==
    [][/\ at = "call"
       /\ at' = "raised"
       /\ raised' = "NotImplementedError"
       /\ UNCHANGED <<caller, l2_reg, total_loss, per_batch, result, training, params, opt_steps,
                      param_groups, trainer_metrics, evaluator_metrics, yielded,
                      mean_loss, epoch_loss, total_samples, grad, stepped>>]_vars

\* evaluate of a base runner on a model in train mode has raised
C23_Witness ==
    /\ runner_class = "BaseRunner"
    /\ method = "evaluate"
    /\ at = "raised"
    /\ raised = "NotImplementedError"
    /\ training
    /\ dataloader = 2
    /\ yielded = <<>>

\* the tasks pipeline_factory has a pipeline for
Supported == {"classification", "regression"}

\* C24: a task other than 'classification' or 'regression' is rejected with a
\* not-implemented error when the pipeline is selected, before any runner is built,
\* any batch is consumed, any validation pass runs or any optimizer step is taken; for
\* the two supported tasks one runner variant is selected once and is the class of
\* both the trainer and the evaluator.
C24_UnsupportedTaskRejected ==
    [][/\ (config.task \notin Supported /\ pc = "pipeline") =>
             /\ pc' = "raised"
             /\ raised' = "NotImplementedError"
       /\ config.task \notin Supported =>
             /\ trainer' = "none"
             /\ val_evaluator' = "none"
             /\ runner_class' = "none"
             /\ opt_steps' = 0
             /\ val_metrics' = <<>>
             /\ train_metrics' = <<>>
             /\ evaluator_metrics' = <<>>
             /\ trainer_metrics' = <<>>
             /\ save_dir' = <<>>
       /\ config.task \in Supported =>
             /\ pc' # "raised"
             /\ raised' = "none"
             /\ runner_class' # runner_class =>
                   /\ pc = "pipeline"
                   /\ runner_class' = "SupervisedRunner"
             /\ pc' \notin {"pipeline", "runners"} =>
                   /\ trainer' = runner_class'
                   /\ val_evaluator' = runner_class'
                   /\ runner_class' = "SupervisedRunner"
             /\ (opt_steps' > 0 \/ val_metrics' # <<>>) => trainer' = "SupervisedRunner"]_vars

\* the run of an unsupported task has been rejected
C24_Witness ==
    /\ config.task = "imputation"
    /\ pc = "raised"
    /\ raised = "NotImplementedError"
    /\ trainer = "none"

\* a regression run has trained an epoch with the runners of the class selected
C24_SupportedTaskRuns ==
    /\ config.task = "regression"
    /\ pc = "save"
    /\ opt_steps > 0
    /\ trainer = "SupervisedRunner"
    /\ val_evaluator = "SupervisedRunner"

\* C25: validate tolerates aggregate metrics whose value is None: it completes
\* without raising, and an epoch whose key metric is None is not taken as an
\* improvement.
C25_ValidateToleratesNone ==
    /\ raised = "none"
    /\ best_value # None
    /\ (method = "validate" /\ at = "condition") =>
          (Get(evaluator_metrics, config.key_metric) = None =>
              ~condition(evaluator_metrics, config.key_metric, best_value))

\* C26: every checkpoint the run persists ('last', per-epoch, milestone or 'best')
\* holds the epoch number, the model parameters and the optimizer state.
C26_CheckpointsComplete ==
    \A name \in DOMAIN save_dir :
        /\ DOMAIN save_dir[name] = {"epoch", "state_dict", "optimizer"}
        /\ save_dir[name].epoch \in 0 .. epoch
        /\ save_dir[name].state_dict \in Vals
        /\ save_dir[name].optimizer # <<>>

\* the rolling and per-epoch checkpoint files, the milestone ones among them
Rolling(dir) == {name \in DOMAIN dir : name.stem # "best"}

\* the training pass and the validation pass of epoch e have both completed and
\* have left their rows
EpochComplete(e, tm, vm) ==
    /\ e \in start_epoch + 1 .. epoch
    /\ Len(tm) >= e - start_epoch
    /\ tm[e - start_epoch][1] = e
    /\ Len(vm) >= e - start_epoch + 1
    /\ vm[e - start_epoch + 1][1] = e

\* C27: no checkpoint is written while a training epoch is in progress: at every
\* point the rolling / per-epoch checkpoints on disk are tagged only with epochs whose
\* training pass and validation pass have both completed.
C27_NoPartialEpochCheckpoint ==
    [][/\ \A name \in Rolling(save_dir') :
             EpochComplete(save_dir'[name].epoch, train_metrics', val_metrics')
       /\ \A name \in Rolling(save_dir') :
             (name \notin DOMAIN save_dir \/ save_dir'[name] # save_dir[name]) =>
                 /\ pc \in {"save", "lr"}
                 /\ save_dir'[name].epoch = epoch
                 /\ save_dir'[name].state_dict = params
                 /\ EpochComplete(epoch, train_metrics, val_metrics)
       /\ pc = "train" => save_dir' = save_dir]_vars

\* a resumed run that keeps every epoch is training its second epoch with the
\* checkpoint of the first on disk
C27_Witness ==
    /\ pc = "train"
    /\ config.save_all
    /\ start_epoch > 0
    /\ epoch = start_epoch + 2
    /\ DOMAIN save_dir = {FileName("best", 0), FileName("epoch", start_epoch + 1)}

\* the samples of the loader that are of class c and that the model classifies as c by
\* its output logits
CorrectlyClassified(c) ==
    SelectSeq(samples, LAMBDA x : /\ x.target = c
                                  /\ predicted_category_of_logits(x.feature, num_classes) = c)

\* the classes with at least one correctly classified sample, ascending
PopulatedClasses ==
    SelectSeq([i \in 1 .. num_classes |-> i - 1], LAMBDA c : CorrectlyClassified(c) # <<>>)

\* C28: when make_weibull_from_trainsets has returned, the class-label list handed to
\* Weibull fitting holds exactly the classes with at least one sample whose target is
\* the class and whose arg-max over the output logits is the class; the MAV and
\* distance-set lists are as long and aligned with it, the MAV of a class being the mean
\* of exactly those samples and its distance set holding one entry for each of them.
C28_CorrectSamplesContribute ==
    (method = "make_weibull_from_trainsets" /\ at = "returned") =>
        /\ weibull_args.categories = PopulatedClasses
        /\ Len(weibull_args.MAV) = Len(weibull_args.categories)
        /\ Len(weibull_args.dists) = Len(weibull_args.categories)
        /\ \A i \in 1 .. Len(weibull_args.categories) :
               LET members == CorrectlyClassified(weibull_args.categories[i])
               IN  /\ members # <<>>
                   /\ weibull_args.MAV[i] = mean(members)
                   /\ weibull_args.dists[i] =
                          compute_channel_distances(weibull_args.MAV[i], members)

\* C29: when openmax has returned, with num_classes the number of known classes of
\* the classifier, every sample's OpenMax vector has num_classes + 1 entries, known
\* class i has index i and the unknown class has the last index num_classes, whatever
\* labels the evaluated samples carry.
C29_UnknownIsLastOfNPlusOne ==
    (method = "openmax" /\ at = "returned") =>
        /\ \A s \in 1 .. Len(samples) :
               Len(openmax_scores.openmax_probs[s]) = num_classes + 1
        /\ openmax_scores.class_to_idx_dict = [i \in 1 .. num_classes |-> i - 1]
        /\ openmax_scores.unknown = num_classes

RECURSIVE RSum(_)

\* the sum of a sequence of rationals
RSum(p) == IF p = <<>> THEN <<0, 1>> ELSE RAdd(Head(p), RSum(Tail(p)))

\* p is a probability vector: no entry is negative and the entries sum to 1
IsDistribution(p) ==
    /\ \A i \in 1 .. Len(p) : p[i][1] >= 0 /\ p[i][2] > 0
    /\ RSum(p)[1] = RSum(p)[2]

\* C30: when openmax has returned, for every evaluated sample the OpenMax vector and
\* the plain-softmax vector that get_scores returned are each elementwise non-negative
\* and sum to 1.
C30_ScoresAreDistributions ==
    (method = "openmax" /\ at = "returned") =>
        \A s \in 1 .. Len(samples) :
            /\ IsDistribution(openmax_scores.openmax_probs[s])
            /\ IsDistribution(openmax_scores.softmax_probs[s])

C32_BestMetricsIsACopy ==
    [][/\ best_metrics' # <<>> =>
              /\ Get(best_metrics', config.key_metric) = best_value'
              /\ BestFile \in DOMAIN save_dir'
              /\ Get(best_metrics', "epoch") = save_dir'[BestFile].epoch
       /\ (evaluator_metrics' # evaluator_metrics /\ ~(ValidateStep /\ Improves)) =>
              best_metrics' = best_metrics]_vars

\* the validation of the second epoch has overwritten the evaluator's map after the
\* first epoch had given the best value
C32_Witness ==
    /\ pc = "save"
    /\ epoch = start_epoch + 2
    /\ Get(best_metrics, "epoch") = start_epoch + 1
    /\ Get(evaluator_metrics, "epoch") = epoch
    /\ Get(evaluator_metrics, config.key_metric) # best_value
    /\ save_dir[BestFile].epoch = start_epoch + 1

\* C33: with strictly increasing milestone epochs, whenever the loop is at the
\* scheduling step of an epoch that equals a milestone lr_step[i], the step multiplies
\* the learning rate by lr_factor[i], in the orchestrator and in every parameter group
\* of the optimizer; this is asked of fresh runs and of resumed runs alike.
C33_EveryMilestoneApplied ==
    [][(pc = "lr" /\ StrictlyIncreasing(config.lr_step)) =>
          \A i \in DOMAIN config.lr_step :
              epoch = config.lr_step[i] =>
                  /\ REq(lr', RMul(lr, config.lr_factor[i]))
                  /\ \A g \in DOMAIN param_groups' : REq(param_groups'[g], lr')]_vars

\* the training epochs the model parameters have been through: those of the
\* checkpoint the run was resumed from and those trained in this run
EpochsTrained == start_epoch + Len(train_metrics)

\* C34: a step that writes a checkpoint (last, per-epoch, milestone or best) stores the
\* current parameters under an epoch tag equal to the number of training epochs they
\* have been through, start_epoch plus the epochs completed in this run; this is
\* asked of the baseline validation of a resumed run too.
C34_EpochTagIsEpochsTrained ==
    [][\A name \in DOMAIN save_dir' :
          (name \notin DOMAIN save_dir \/ save_dir'[name] # save_dir[name]) =>
              /\ save_dir'[name].state_dict = params
              /\ save_dir'[name].epoch = EpochsTrained]_vars

\* the trainer is past the loss statements of the current batch
ObjectiveSet == method = "train_epoch" /\ at \in {"zero_grad", "backward", "clip", "step"}

\* C35: once optimizer and trainer are built, the configured l2_reg is in one place:
\* with global_reg it is the optimizer's weight decay and the objective of every batch
\* is the mean loss alone; without global_reg the weight decay is 0 and the objective is
\* the mean loss plus l2_reg times the penalty; weight decay and explicit penalty are
\* never both in force; and the batch loss metric and the epoch loss metric are the
\* mean loss of the batch and the weighted mean over the batches, without the penalty.
C35_RegularisationRoutedOnce ==
    pc \notin {"optimizer", "pipeline", "runners"} =>
        /\ weight_decay = (IF reg.global_reg THEN reg.l2_reg ELSE 0)
        /\ ~(weight_decay # 0 /\ l2_reg # None /\ l2_reg # 0)
        /\ ObjectiveSet =>
               /\ REq(mean_loss, BatchMean(batch))
               /\ REq(total_loss,
                      IF reg.global_reg
                      THEN mean_loss
                      ELSE RAdd(mean_loss, <<reg.l2_reg * l2_reg_loss(params), 1>>))
        /\ (method = "train_epoch" /\ at = "returned") =>
               REq(Get(trainer_metrics, "loss"), WeightedMean(yielded))

\* a batch of a run with a positive l2_reg and no global_reg is about to be
\* back-propagated with the penalty in its objective
C35_Witness ==
    /\ pc = "train"
    /\ method = "train_epoch"
    /\ at = "backward"
    /\ ~reg.global_reg
    /\ reg.l2_reg > 0
    /\ weight_decay = 0
    /\ ~REq(total_loss, mean_loss)

\* a batch of a run with a positive l2_reg and global_reg is about to be
\* back-propagated on the mean loss alone, with the optimizer decaying the weights
C35_GlobalRegRuns ==
    /\ pc = "train"
    /\ method = "train_epoch"
    /\ at = "backward"
    /\ reg.global_reg
    /\ weight_decay > 0
    /\ REq(total_loss, mean_loss)

\* C36: a run in test-only mode consists of one step, the evaluation pass after which
\* main returns nothing: in every state of such a run there has been no training row
\* and no optimizer step, no validation row and no best tracking, no checkpoint and no
\* prediction dump, no exported table and no record in the cross-experiment log.
C36_TestOnlyOnlyEvaluates ==
    config.test_only = "testset" =>
        /\ pc \in {"setup", "returned"}
        /\ pc = "returned" =>
               /\ ret = [kind |-> "none", value |-> 0]
               /\ evaluator_metrics # <<>>
               /\ ~training
        /\ opt_steps = 0
        /\ trainer_metrics = <<>>
        /\ train_metrics = <<>>
        /\ val_metrics = <<>>
        /\ best_metrics = <<>>
        /\ best_value = InitialBest(config.key_metric)
        /\ save_dir = <<>>
        /\ pred_dir = <<>>
        /\ writes = [best |-> 0, dump |-> 0]
        /\ exported = <<>>
        /\ records = <<>>
        /\ difficulty = [train |-> 0, val |-> 0]

\* a test-only run has evaluated and returned
C36_Witness ==
    /\ config.test_only = "testset"
    /\ pc = "returned"
    /\ evaluator_metrics # <<>>
    /\ config.epochs > start_epoch

\* the order without shuffling: the batches as the dataset holds them
DatasetOrder == [i \in 1 .. Len(val_data) |-> i]

\* C37: any two finished evaluation passes of the evaluator that ran with the same
\* model parameters and the same epoch argument, whatever training or evaluation ran
\* between them, met the batches in the same order, the order of the dataset, and
\* returned the same aggregate metrics and the same per-batch records.
C37_EvaluationIsDeterministic ==
    \A i, j \in 1 .. Len(passes) :
        (passes[i].params = passes[j].params /\ passes[i].epoch_num = passes[j].epoch_num) =>
            /\ passes[i].order = DatasetOrder
            /\ passes[j].order = passes[i].order
            /\ passes[j].metrics = passes[i].metrics
            /\ passes[j].per_batch = passes[i].per_batch

\* two passes with the same parameters and epoch argument over several batches, with
\* optimizer steps taken between them
C37_Witness ==
    /\ Len(val_data) > 1
    /\ Len(passes) > 1
    /\ passes[1].params = passes[2].params
    /\ passes[1].epoch_num = passes[2].epoch_num
    /\ passes[1].opt_steps < passes[2].opt_steps
    /\ passes[2].per_batch.predictions = passes[1].per_batch.predictions

====
